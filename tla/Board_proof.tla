---------------------------- MODULE Board_proof -----------------------------
(***************************************************************************)
(* Theorems about what the timer interrupt works on.  First Panel, for any *)
(* positions of the potentiometers, any calibration and any number of      *)
(* turns, presses and reads by the shell; then the writes to the YM3812,   *)
(* for any set of bytes; last the functions of OPL2.c that make those      *)
(* writes, for any arguments, instruments and number of calls.             *)
(*                                                                         *)
(* Tracks and ShownIsStored are not inductive.  That a slider shows its    *)
(* parameter when another potentiometer is turned needs that no two        *)
(* potentiometers of a page set the same parameter, and that the release,  *)
(* which a blank quarter may show, is not on a page with a blank quarter.  *)
(* That the parameters of a page are set as the potentiometers stood needs *)
(* that the handlers are those of the page, and that the value a poll      *)
(* compares with is the one the handler last saw.                          *)
(*                                                                         *)
(* ChipAsAsked and OthersKept need that the fields of a register share no  *)
(* bit, and that every shadow is a byte and is what its register holds:    *)
(* Good, of which the invariant DriverInv is made.  A byte is taken as the *)
(* function of its bits; Did says what a call set, and that it set nothing *)
(* else, and Did of a call follows from Did of the setters it makes.       *)
(***************************************************************************)
EXTENDS Panel, YM3812, OPL2, TLAPS

PageNo == 0 .. MENU_PAGES - 1
Conversions == 0..4095   \* what the ADC can convert to

(* The parameter a blank quarter of page i may come to show. *)
Release(i) == <<"Release", Page(i)[1].param[2]>>

InputTypes ==
  /\ position \in [Pots -> Positions]
  /\ pressed \subseteq {"left", "right"}

ADCTypes ==
  /\ mux \in Pots
  /\ adc \in [state : {"idle", "busy", "done"}, data : Conversions]
  /\ potVal \in [Pots -> Conversions]
  /\ shell \in [at : {"idle", "start", "wait"}, pot : Pots]

PollTypes ==
  /\ potPrevVal \in [Pots -> Conversions] /\ seen \in [Pots -> Conversions]
  /\ buttonPrev \subseteq {"left", "right"}
  /\ Menu_Index \in PageNo
  /\ handlers \in 0 .. MENU_PAGES
  /\ \A p \in Params : field[p] \in 0 .. Values(p) - 1
  /\ \A k \in Pots : shown[k] = Nothing \/ shown[k].param \in Params
  /\ turned \subseteq Pots

Types == InputTypes /\ ADCTypes /\ PollTypes

(* The handlers are those of the page on the display, or the first ones. *)
OnPage == handlers = Generic \/ handlers = Menu_Index

(* A poll compares with what the handler last saw. *)
Compares == \A k \in Reliable : potPrevVal[k] = seen[k]

Close == fresh => \A k \in Reliable : Near(Reading(k), seen[k])

(* The parameter of potentiometer k on the page is as it was last seen. *)
IsSet(k) ==
  LET control == Page(Menu_Index)[k]
  IN  control # Blank =>
        field[control.param]
          = Stored(control.param, Clamp(seen[k], control.scale))

AreSet == handlers # Generic => \A k \in turned \cap Reliable : IsSet(k)

(* What quarter k of the display may show while page i is up. *)
Allowed(k, i) ==
  IF Page(i)[k] # Blank
    THEN shown[k].param = Page(i)[k].param
    ELSE shown[k] = Nothing \/ shown[k].param = Release(i)

True(k) == shown[k] # Nothing => shown[k].value = field[shown[k].param]

IsShown == \A k \in Pots : True(k) /\ Allowed(k, Menu_Index)

IInv ==
  /\ Types
  /\ OnPage
  /\ Compares
  /\ Close
  /\ AreSet
  /\ IsShown

-----------------------------------------------------------------------------
(* The pages.                                                              *)

LEMMA Pages ==
  /\ Page(0) = EnvelopePage(1) /\ Page(1) = EnvelopePage(2)
  /\ Page(2) = SoundPage(1) /\ Page(3) = SoundPage(2)
  /\ Page(4) = EffectPage(1) /\ Page(5) = EffectPage(2)
  /\ Page(6) = GlobalPage
  /\ PageNo = 0..6
BY DEF Page, Main_Menu, PageNo, MENU_PAGES

(* No two potentiometers of a page set the same parameter. *)
LEMMA ControlsDiffer ==
  ASSUME NEW i \in PageNo, NEW k \in Pots, NEW l \in Pots,
         Page(i)[k] # Blank, Page(i)[k].param = Page(i)[l].param
  PROVE  k = l
<1>1. CASE i = 0
  BY <1>1, Pages DEF EnvelopePage, Pots, Control
<1>2. CASE i = 1
  BY <1>2, Pages DEF EnvelopePage, Pots, Control
<1>3. CASE i = 2
  BY <1>3, Pages DEF SoundPage, Pots, Control
<1>4. CASE i = 3
  BY <1>4, Pages DEF SoundPage, Pots, Control
<1>5. CASE i = 4
  BY <1>5, Pages DEF EffectPage, Pots, Control, Blank
<1>6. CASE i = 5
  BY <1>6, Pages DEF EffectPage, Pots, Control, Blank
<1>7. CASE i = 6
  BY <1>7, Pages DEF GlobalPage, Pots, Global
<1> QED BY <1>1, <1>2, <1>3, <1>4, <1>5, <1>6, <1>7, Pages

(* What a potentiometer sets has as many values as its scale, but for the  *)
(* wave form, which has half of them.                                      *)
LEMMA ScaleFits ==
  ASSUME NEW i \in PageNo, NEW k \in Pots, Page(i)[k] # Blank
  PROVE  /\ Page(i)[k].param # Blank.param
         /\ Page(i)[k].scale \in {2, 4, 8, 16}
         /\ \/ Values(Page(i)[k].param) = Page(i)[k].scale
            \/ Values(Page(i)[k].param) = 8 /\ Page(i)[k].scale = 16
<1>1. CASE i \in {0, 1}
  BY <1>1, Pages DEF EnvelopePage, Pots, Control, Values, Blank
<1>2. CASE i \in {2, 3}
  BY <1>2, Pages DEF SoundPage, Pots, Control, Values, Blank
<1>3. CASE i \in {4, 5}
  BY <1>3, Pages DEF EffectPage, Pots, Control, Values, Blank
<1>4. CASE i = 6
  BY <1>4, Pages DEF GlobalPage, Pots, Global, Values, Blank
<1> QED BY <1>1, <1>2, <1>3, <1>4, Pages

(* A page with a blank quarter is one of the effects of an operator; the   *)
(* release of that operator is on another page.                            *)
LEMMA BlankQuarter ==
  ASSUME NEW i \in PageNo, NEW k \in Pots, Page(i)[k] = Blank
  PROVE  /\ Release(i) \in Params
         /\ Release(i) # Blank.param
         /\ \A l \in Pots : Page(i)[l].param # Release(i)
<1>1. i \in {4, 5} /\ k = 4
  <2>1. CASE i \in {0, 1}
    BY <2>1, Pages DEF EnvelopePage, Pots, Control, Blank
  <2>2. CASE i \in {2, 3}
    BY <2>2, Pages DEF SoundPage, Pots, Control, Blank
  <2>3. CASE i = 6
    BY <2>3, Pages DEF GlobalPage, Pots, Global, Blank
  <2>4. CASE i \in {4, 5}
    BY <2>4, Pages DEF EffectPage, Pots, Control, Blank
  <2> QED BY <2>1, <2>2, <2>3, <2>4, Pages
<1>2. Release(i) = Page(i - 4)[4].param /\ Release(i) # Blank.param
  BY <1>1, Pages DEF EffectPage, EnvelopePage, Control, Blank, Release
<1>3. Release(i) \in Params
  BY <1>1, <1>2, Pages DEF Params, PageNo, Pots
<1>4. \A l \in Pots : Page(i)[l].param # Release(i)
  BY <1>1, Pages DEF EffectPage, Control, Blank, Release, Pots
<1> QED BY <1>2, <1>3, <1>4

LEMMA ParamOfPage ==
  ASSUME NEW i \in PageNo, NEW k \in Pots, Page(i)[k] # Blank
  PROVE  Page(i)[k].param \in Params
BY ScaleFits DEF Params, PageNo

LEMMA NamedParams == Blank.param \notin Params
BY DEF Params

LEMMA SliderParts ==
  \A params, p : Slider(params, p).param = p /\ Slider(params, p).value = params[p]
BY DEF Slider

LEMMA HasValues == \A p : Values(p) \in {2, 4, 8, 16}
BY DEF Values

-----------------------------------------------------------------------------
(* The readings and the values they set.                                   *)

LEMMA Calibrated ==
  \A val \in Conversions : Apply_Calibration_Offset(val) \in Conversions
<1> SUFFICES ASSUME NEW val \in Conversions
             PROVE  Apply_Calibration_Offset(val) \in Conversions
  OBVIOUS
<1> USE DEF Conversions
<1>1. calibrationVal \in -4095..4095
  BY PanelAssumption
<1> DEFINE low  == val + calibrationVal < 0
           high == val + calibrationVal > 4095 \/ val = 4095
<1>2. ~(low /\ high)
  BY <1>1
<1>3. Apply_Calibration_Offset(val)
        = CASE low -> 0 [] high -> 4095 [] OTHER -> val + calibrationVal
  BY DEF Apply_Calibration_Offset
<1>4. ~low /\ ~high => val + calibrationVal \in 0..4095
  BY <1>1
<1> HIDE DEF low, high
<1>5. CASE low
  <2>1. Apply_Calibration_Offset(val) = 0
    BY <1>2, <1>3, <1>5
  <2> QED BY <2>1
<1>6. CASE high
  <2>1. Apply_Calibration_Offset(val) = 4095
    BY <1>2, <1>3, <1>6
  <2> QED BY <2>1
<1>7. CASE ~low /\ ~high
  <2>1. Apply_Calibration_Offset(val) = val + calibrationVal
    BY <1>3, <1>7
  <2> QED BY <2>1, <1>4, <1>7
<1> QED BY <1>5, <1>6, <1>7

LEMMA ReadingTypes ==
  ASSUME Types, NEW k \in Pots
  PROVE  Reading(k) \in Conversions
<1>1. position[k] \in Positions
  BY DEF Types, InputTypes
<1>2. Positions \subseteq Conversions
  BY PanelAssumption DEF Conversions
<1> QED BY <1>1, <1>2, Calibrated DEF Reading

LEMMA ReadTypes ==
  ASSUME Types
  PROVE  Read_Potentiometers \in [Pots -> Conversions]
<1>1. adc.data \in Conversions
  BY DEF Types, ADCTypes
<1>2. Apply_Calibration_Offset(adc.data) \in Conversions
  BY <1>1, Calibrated
<1> QED BY <1>2, ReadingTypes DEF Read_Potentiometers

LEMMA NearItself == \A val \in Conversions : Near(val, val)
BY DEF Near, Moved, Conversions, POTENTIOMETER_INTERRUPT_DIFFERENCE

(* What a setter stores of a scaled reading fits its field, ... *)
LEMMA Fits ==
  ASSUME NEW val \in Conversions, NEW scale \in {2, 4, 8, 16}, NEW p
  PROVE  Stored(p, Clamp(val, scale)) \in 0 .. Values(p) - 1
<1>1. scale * val \in Int
  BY DEF Conversions
<1>2. Clamp(val, scale) \in Int
  BY <1>1 DEF Clamp, ADC_RESOLUTION
<1>3. Values(p) \in {2, 4, 8, 16}
  BY HasValues
<1> QED BY <1>2, <1>3 DEF Stored

(* ... and from the end of the scale it is the field's largest value. *)
LEMMA End ==
  ASSUME NEW i \in PageNo, NEW k \in Pots, Page(i)[k] # Blank
  PROVE  LET control == Page(i)[k]
         IN  Stored(control.param, Clamp(4095, control.scale))
               = Values(control.param) - 1
<1> DEFINE scale == Page(i)[k].scale
           p     == Page(i)[k].param
<1>1. /\ scale \in {2, 4, 8, 16}
      /\ Values(p) = scale \/ (Values(p) = 8 /\ scale = 16)
  BY ScaleFits, Zenon
<1>2. Stored(p, Clamp(4095, scale)) = Clamp(4095, scale) % Values(p)
  BY DEF Stored
<1> HIDE DEF scale, p
<1>3. Clamp(4095, scale) = scale - 1
  <2> SUFFICES (scale * 4095) \div 4096 = scale - 1
    BY DEF Clamp, ADC_RESOLUTION
  <2>1. CASE scale = 2
    BY <2>1
  <2>2. CASE scale = 4
    BY <2>2
  <2>3. CASE scale = 8
    BY <2>3
  <2>4. CASE scale = 16
    BY <2>4
  <2> QED BY <1>1, <2>1, <2>2, <2>3, <2>4
<1>4. (scale - 1) % Values(p) = Values(p) - 1
  BY <1>1
<1>5. Stored(p, Clamp(4095, scale)) = Values(p) - 1
  BY <1>2, <1>3, <1>4
<1> QED BY <1>5 DEF scale, p

LEMMA NextPage ==
  ASSUME NEW i \in PageNo, NEW down
  PROVE  Turnover(down, i) \in PageNo /\ Turnover({}, i) = i
BY DEF PageNo, Turnover, LeftOf, RightOf, MENU_PAGES

-----------------------------------------------------------------------------
(* The invariant.                                                          *)

LEMMA Initially == Init => IInv
<1> SUFFICES ASSUME Init
             PROVE  IInv
  OBVIOUS
<1>1. \A k \in Pots : position[k] = Start
  BY DEF Init
<1>2. Start \in Conversions /\ position \in [Pots -> Positions]
  BY PanelAssumption DEF Init, Conversions
<1>3. \A k \in Pots : Reading(k) \in Conversions
  BY <1>1, <1>2, Calibrated DEF Reading
<1>4. \A p \in Params : field[p] \in 0 .. Values(p) - 1
  <2> SUFFICES ASSUME NEW p \in Params
               PROVE  TestInstrument(p) \in 0 .. Values(p) - 1
    BY DEF Init
  <2> QED BY DEF TestInstrument, Values
<1>5. \A k \in Pots : Page(0)[k] # Blank
  BY Pages DEF EnvelopePage, Pots, Control, Blank
<1>6. Menu_Index = 0 /\ handlers = Generic /\ 0 \in PageNo
  BY DEF Init, PageNo, MENU_PAGES
<1>7. \A k \in Pots : /\ shown[k] = Slider(field, Page(0)[k].param)
                       /\ Page(0)[k].param \in Params
  BY <1>5, <1>6, ParamOfPage DEF Init, Draw
<1>8. Types
  <2>1. 0 \in Conversions
    BY DEF Conversions
  <2>2. InputTypes
    BY <1>2 DEF Init, InputTypes
  <2>3. ADCTypes
    BY <1>3, <2>1 DEF Init, ADCTypes, Idle, Pots
  <2>4. PollTypes
    <3>1. handlers \in 0 .. MENU_PAGES
      BY <1>6 DEF Generic, MENU_PAGES
    <3>2. \A k \in Pots : shown[k].param \in Params
      BY <1>7, SliderParts
    <3> QED BY <1>3, <1>4, <1>6, <3>1, <3>2 DEF Init, PollTypes
  <2> QED BY <2>2, <2>3, <2>4 DEF Types
<1>9. OnPage /\ AreSet
  BY <1>6 DEF OnPage, AreSet
<1>10. Compares
  BY DEF Init, Compares, Reliable, Pots
<1>11. Close
  <2> SUFFICES ASSUME NEW k \in Pots
               PROVE  Near(Reading(k), seen[k])
    BY DEF Close, Reliable, Init, Pots
  <2>1. seen[k] = Reading(k)
    BY DEF Init
  <2> QED BY <1>3, <2>1, NearItself
<1>12. IsShown
  <2> SUFFICES ASSUME NEW k \in Pots
               PROVE  True(k) /\ Allowed(k, 0)
    BY <1>6 DEF IsShown
  <2>1. /\ shown[k].param = Page(0)[k].param
        /\ shown[k].value = field[Page(0)[k].param]
    BY <1>7, SliderParts
  <2> QED BY <1>5, <2>1 DEF True, Allowed
<1> QED BY <1>8, <1>9, <1>10, <1>11, <1>12 DEF IInv

(* What is not a poll leaves everything a poll compares and sets, and if   *)
(* it turns a potentiometer or a button, the state is no longer fresh.     *)
LEMMA Quietly ==
  ASSUME Types, [Next]_vars, ~Poll_Inputs
  PROVE  /\ Types'
         /\ UNCHANGED pollVars
         /\ fresh' = FALSE \/ UNCHANGED <<position, fresh>>
<1> DEFINE Quiet ==
  /\ InputTypes' /\ ADCTypes'
  /\ UNCHANGED pollVars
  /\ fresh' = FALSE \/ UNCHANGED <<position, fresh>>
<1> USE DEF Types, InputTypes, ADCTypes
<1>1. ASSUME NEW k \in Turned, NEW p \in Positions, Turn(k, p)
      PROVE  Quiet
  BY <1>1 DEF Turn
<1>2. ASSUME NEW b \in {"left", "right"}, Press(b) \/ LetGo(b)
      PROVE  Quiet
  BY <1>2 DEF Press, LetGo
<1>3. ASSUME ShellSelect \/ ShellStart
      PROVE  Quiet
  BY <1>3 DEF ShellSelect, ShellStart, inputVars
<1>4. ASSUME Convert
      PROVE  Quiet
  <2>1. Positions \subseteq Conversions
    BY PanelAssumption DEF Conversions
  <2> QED BY <1>4, <2>1 DEF Convert, inputVars
<1>5. ASSUME ShellTake
      PROVE  Quiet
  <2>1. 0 \in Conversions
    BY DEF Conversions
  <2>2. Apply_Calibration_Offset(adc.data) \in Conversions
    BY Calibrated
  <2>3. shell.pot \in Pots /\ (shell.pot # 4 => shell.pot + 1 \in Pots)
    BY DEF Pots
  <2> QED BY <1>5, <2>1, <2>2, <2>3 DEF ShellTake, inputVars, Idle, Pots
<1>6. ASSUME UNCHANGED vars
      PROVE  Quiet
  BY <1>6 DEF vars, inputVars
<1>7. Quiet
  BY <1>1, <1>2, <1>3, <1>4, <1>5, <1>6 DEF Next
<1>8. PollTypes'
  BY <1>7 DEF pollVars, PollTypes
<1> QED BY <1>7, <1>8

LEMMA QuietlyKept ==
  ASSUME IInv, [Next]_vars, ~Poll_Inputs
  PROVE  IInv'
<1>1. /\ Types' /\ UNCHANGED pollVars
      /\ fresh' = FALSE \/ UNCHANGED <<position, fresh>>
  BY Quietly DEF IInv
<1>2. OnPage' /\ Compares' /\ AreSet'
  BY <1>1 DEF IInv, OnPage, Compares, AreSet, IsSet, Reliable, pollVars
<1>3. Close'
  BY <1>1 DEF IInv, Close, Reliable, Reading, pollVars
<1>4. IsShown'
  BY <1>1 DEF IInv, IsShown, True, Allowed, pollVars
<1> QED BY <1>1, <1>2, <1>3, <1>4 DEF IInv

-----------------------------------------------------------------------------
(* The poll.                                                               *)

(* What a potentiometer that moved sets, ... *)
LEMMA Sets ==
  ASSUME NEW i \in PageNo, NEW moved \in SUBSET Pots, NEW val,
         NEW k \in moved, Page(i)[k] # Blank
  PROVE  LET control == Page(i)[k]
         IN  Change(i, moved, val)[control.param]
               = Stored(control.param, Clamp(val[k], control.scale))
<1> DEFINE p == Page(i)[k].param
           l == CHOOSE l \in moved : Page(i)[l].param = p
<1>1. l \in moved /\ Page(i)[l].param = p
  OBVIOUS
<1>2. l = k
  BY <1>1, ControlsDiffer
<1>3. p \in Params
  BY ParamOfPage
<1>4. Change(i, moved, val)[p] = Stored(p, Clamp(val[l], Page(i)[l].scale))
  BY <1>1, <1>3 DEF Change
<1> HIDE DEF l
<1> QED BY <1>2, <1>4

(* ... and what the others leave alone. *)
LEMMA Leaves ==
  ASSUME NEW i, NEW moved, NEW val, NEW p \in Params,
         \A k \in moved : Page(i)[k].param # p
  PROVE  Change(i, moved, val)[p] = field[p]
BY DEF Change

(* What a poll reads, which potentiometers it finds moved, and which of    *)
(* those have a handler that does more than log.                           *)
MovedPots == {k \in Pots : Moved(Read_Potentiometers[k], potPrevVal[k])}
Wired     == IF handlers = Generic THEN {} ELSE MovedPots
NewField  == Change(handlers, Wired, Read_Potentiometers)
NewShown  == Redraw(handlers, Wired, NewField)
Down      == pressed \ buttonPrev

LEMMA PollDoes ==
  ASSUME Poll_Inputs
  PROVE  /\ potVal' = Read_Potentiometers
         /\ potPrevVal' = [k \in Pots |-> Prev(potVal'[k], potPrevVal[k])]
         /\ field' = NewField
         /\ buttonPrev' = pressed
         /\ Menu_Index' = Turnover(Down, Menu_Index)
         /\ Down = {} => /\ shown' = NewShown
                        /\ turned' = turned \cup MovedPots
                        /\ handlers' = handlers
         /\ Down # {} => /\ shown' = Draw(Menu_Index', NewField)
                        /\ turned' = {}
                        /\ handlers' = Menu_Index'
         /\ seen' = [k \in Pots |->
                       IF k \in MovedPots THEN Reading(k) ELSE seen[k]]
         /\ fresh' = TRUE
         /\ mixed' = (mixed \/ adc.state = "done")
         /\ mux' = 4 /\ adc' = Idle
         /\ UNCHANGED <<position, pressed, shell>>
BY DEF Poll_Inputs, MovedPots, Wired, NewField, NewShown, Down, inputVars

(* A reading the shell has no part in is the potentiometer's own. *)
LEMMA ReadsOwn ==
  ASSUME Types, Poll_Inputs, NEW k \in Reliable'
  PROVE  /\ k \in Reliable /\ k \in Pots
         /\ Read_Potentiometers[k] = Reading(k)
<1>1. mixed' = (mixed \/ adc.state = "done")
  BY PollDoes
<1>2. CASE k = 1
  <2>1. ~mixed'
    BY <1>2 DEF Reliable
  <2>2. ~mixed /\ adc.state # "done"
    BY <1>1, <2>1
  <2> QED BY <2>2, <1>2 DEF Reliable, Pots, Read_Potentiometers
<1>3. CASE k # 1
  BY <1>3 DEF Reliable, Pots, Read_Potentiometers
<1> QED BY <1>2, <1>3

LEMMA WiredHere ==
  ASSUME Types, OnPage
  PROVE  /\ Wired \in SUBSET Pots /\ Wired \subseteq MovedPots
         /\ Wired # {} => handlers = Menu_Index /\ handlers \in PageNo
         /\ handlers # Generic => Wired = MovedPots
BY DEF Types, PollTypes, OnPage, Wired, MovedPots

(* A poll leaves a parameter alone that no potentiometer sets that moved. *)
LEMMA FieldKept ==
  ASSUME NEW p \in Params, \A k \in Wired : Page(handlers)[k].param # p
  PROVE  NewField[p] = field[p]
BY Leaves DEF NewField

LEMMA FieldSet ==
  ASSUME Types, OnPage, NEW k \in Wired, Page(Menu_Index)[k] # Blank
  PROVE  LET control == Page(Menu_Index)[k]
         IN  NewField[control.param]
               = Stored(control.param,
                        Clamp(Read_Potentiometers[k], control.scale))
BY Sets, WiredHere DEF NewField

LEMMA FieldFits ==
  ASSUME Types, OnPage, NEW p \in Params
  PROVE  NewField[p] \in 0 .. Values(p) - 1
<1>1. CASE \A k \in Wired : Page(handlers)[k].param # p
  BY <1>1, FieldKept DEF Types, PollTypes
<1>2. ASSUME NEW k \in Wired, Page(handlers)[k].param = p
      PROVE  NewField[p] \in 0 .. Values(p) - 1
  <2>1. k \in Pots /\ handlers = Menu_Index /\ Menu_Index \in PageNo
    BY WiredHere
  <2>2. Page(Menu_Index)[k] # Blank
    BY <1>2, <2>1, NamedParams
  <2> DEFINE val == Read_Potentiometers[k]
             scale == Page(Menu_Index)[k].scale
  <2>3. NewField[p] = Stored(p, Clamp(val, scale))
    BY <1>2, <2>1, <2>2, FieldSet
  <2>4. val \in Conversions
    BY <2>1, ReadTypes
  <2>5. scale \in {2, 4, 8, 16}
    BY <2>1, <2>2, ScaleFits
  <2> HIDE DEF val, scale
  <2>6. Stored(p, Clamp(val, scale)) \in 0 .. Values(p) - 1
    BY <2>4, <2>5, Fits
  <2> QED BY <2>3, <2>6
<1> QED BY <1>1, <1>2

LEMMA PolledTypes ==
  ASSUME Types, OnPage, IsShown, Poll_Inputs
  PROVE  Types'
<1>1. 0 \in Conversions
  BY DEF Conversions
<1>2. InputTypes'
  BY PollDoes DEF Types, InputTypes
<1>3. ADCTypes'
  BY <1>1, PollDoes, ReadTypes DEF Types, ADCTypes, Idle, Pots
<1>4. /\ potPrevVal' \in [Pots -> Conversions]
      /\ seen' \in [Pots -> Conversions]
  <2>1. \A k \in Pots : Reading(k) \in Conversions
    BY ReadingTypes
  <2> QED BY <2>1, PollDoes, ReadTypes DEF Types, PollTypes, Prev
<1>5. buttonPrev' \subseteq {"left", "right"} /\ turned' \subseteq Pots
  BY PollDoes DEF Types, PollTypes, InputTypes, MovedPots
<1>6. Menu_Index' \in PageNo /\ handlers' \in 0 .. MENU_PAGES
  BY PollDoes, NextPage DEF Types, PollTypes, PageNo, MENU_PAGES
<1>7. \A p \in Params : field'[p] \in 0 .. Values(p) - 1
  BY PollDoes, FieldFits
<1>8. ASSUME NEW k \in Pots
      PROVE  shown'[k] = Nothing \/ shown'[k].param \in Params
  <2>1. CASE Down # {}
    <3>1. shown'[k] = Draw(Menu_Index', NewField)[k]
      BY <2>1, PollDoes
    <3>2. CASE Page(Menu_Index')[k] # Blank
      <4>1. shown'[k] = Slider(NewField, Page(Menu_Index')[k].param)
        BY <3>1, <3>2 DEF Draw
      <4> QED BY <1>6, <3>2, <4>1, ParamOfPage, SliderParts
    <3>3. CASE Page(Menu_Index')[k] = Blank
      BY <3>1, <3>3 DEF Draw
    <3> QED BY <3>2, <3>3
  <2>2. CASE Down = {} /\ k \notin Wired
    BY <2>2, PollDoes DEF NewShown, Redraw, Types, PollTypes
  <2>3. CASE Down = {} /\ k \in Wired
    <3>1. handlers \in PageNo
      BY <2>3, WiredHere
    <3>2. CASE Page(handlers)[k] # Blank
      <4>1. shown'[k] = Slider(NewField, Page(handlers)[k].param)
        BY <2>3, <3>2, PollDoes DEF NewShown, Redraw
      <4> QED BY <3>1, <3>2, <4>1, ParamOfPage, SliderParts
    <3>3. CASE Page(handlers)[k] = Blank
      <4>1. shown'[k] = Slider(NewField, Release(handlers))
        BY <2>3, <3>3, PollDoes DEF NewShown, Redraw, Release
      <4> QED BY <3>1, <3>3, <4>1, BlankQuarter, SliderParts
    <3> QED BY <3>2, <3>3
  <2> QED BY <2>1, <2>2, <2>3
<1> QED BY <1>2, <1>3, <1>4, <1>5, <1>6, <1>7, <1>8 DEF Types, PollTypes

(* The parts of the invariant about what a poll compares. *)
LEMMA PolledNear ==
  ASSUME Types, Compares, Poll_Inputs
  PROVE  Compares' /\ Close'
<1> SUFFICES ASSUME NEW k \in Reliable'
             PROVE  potPrevVal'[k] = seen'[k] /\ Near(Reading(k)', seen'[k])
  BY DEF Compares, Close
<1>1. /\ k \in Pots /\ potPrevVal[k] = seen[k]
      /\ Read_Potentiometers[k] = Reading(k)
  BY ReadsOwn DEF Compares
<1>2. Reading(k)' = Reading(k) /\ Reading(k) \in Conversions
  BY <1>1, PollDoes, ReadingTypes DEF Reading
<1>3. CASE Moved(Reading(k), seen[k])
  <2>1. potPrevVal'[k] = Reading(k) /\ seen'[k] = Reading(k)
    BY <1>1, <1>3, PollDoes DEF MovedPots, Prev
  <2> QED BY <1>2, <2>1, NearItself
<1>4. CASE ~Moved(Reading(k), seen[k])
  <2>1. potPrevVal'[k] = seen[k] /\ seen'[k] = seen[k]
    BY <1>1, <1>4, PollDoes DEF MovedPots, Prev
  <2> QED BY <1>2, <1>4, <2>1 DEF Near
<1> QED BY <1>3, <1>4

LEMMA PolledOnPage ==
  ASSUME Types, OnPage, Poll_Inputs
  PROVE  OnPage'
<1>1. Menu_Index \in PageNo
  BY DEF Types, PollTypes
<1> QED BY <1>1, PollDoes, NextPage DEF OnPage

(* What another potentiometer of the page sets stays when k did not move. *)
LEMMA RestKept ==
  ASSUME Types, OnPage, NEW k \in Pots, k \notin Wired,
         Page(Menu_Index)[k] # Blank
  PROVE  NewField[Page(Menu_Index)[k].param] = field[Page(Menu_Index)[k].param]
<1>1. Menu_Index \in PageNo
  BY DEF Types, PollTypes
<1>2. Page(Menu_Index)[k].param \in Params
  BY <1>1, ParamOfPage
<1>3. ASSUME NEW l \in Wired
      PROVE  Page(handlers)[l].param # Page(Menu_Index)[k].param
  <2>1. l \in Pots /\ handlers = Menu_Index /\ l # k
    BY WiredHere
  <2> QED BY <1>1, <2>1, ControlsDiffer
<1> QED BY <1>2, <1>3, FieldKept

LEMMA PolledSet ==
  ASSUME Types, OnPage, AreSet, Poll_Inputs
  PROVE  AreSet'
<1> SUFFICES ASSUME handlers' # Generic, NEW k \in turned' \cap Reliable'
             PROVE  IsSet(k)'
  BY DEF AreSet
<1>1. Down = {}
  BY PollDoes
<1>2. /\ handlers # Generic /\ Menu_Index \in PageNo
      /\ k \in turned \cup MovedPots
  BY <1>1, PollDoes DEF Types, PollTypes
<1>3. Menu_Index' = Menu_Index
  BY <1>1, <1>2, PollDoes, NextPage
<1>4. k \in Pots /\ k \in Reliable /\ Read_Potentiometers[k] = Reading(k)
  BY ReadsOwn
<1>5. Wired = MovedPots
  BY <1>2, WiredHere
<1>6. CASE Page(Menu_Index)[k] = Blank
  BY <1>3, <1>6 DEF IsSet
<1>7. CASE Page(Menu_Index)[k] # Blank
  <2> DEFINE p     == Page(Menu_Index)[k].param
             scale == Page(Menu_Index)[k].scale
  <2>1. CASE k \in MovedPots
    <3>1. seen'[k] = Reading(k)
      BY <1>4, <2>1, PollDoes
    <3>2. NewField[p] = Stored(p, Clamp(Reading(k), scale))
      BY <1>4, <1>5, <1>7, <2>1, FieldSet
    <3>3. field'[p] = Stored(p, Clamp(seen'[k], scale))
      BY <3>1, <3>2, PollDoes
    <3> QED BY <1>3, <3>3 DEF IsSet
  <2>2. CASE k \notin MovedPots
    <3>1. seen'[k] = seen[k]
      BY <1>4, <2>2, PollDoes
    <3>2. field[p] = Stored(p, Clamp(seen[k], scale))
      BY <1>2, <1>4, <1>7, <2>2 DEF AreSet, IsSet
    <3>3. NewField[p] = field[p]
      BY <1>4, <1>5, <1>7, <2>2, RestKept
    <3>4. field'[p] = Stored(p, Clamp(seen'[k], scale))
      BY <3>1, <3>2, <3>3, PollDoes
    <3> QED BY <1>3, <3>4 DEF IsSet
  <2> QED BY <2>1, <2>2
<1> QED BY <1>6, <1>7

LEMMA PolledShown ==
  ASSUME Types, OnPage, IsShown, Poll_Inputs
  PROVE  IsShown'
<1> SUFFICES ASSUME NEW k \in Pots
             PROVE  True(k)' /\ Allowed(k, Menu_Index)'
  BY DEF IsShown
<1>1. Menu_Index \in PageNo
  BY DEF Types, PollTypes
<1>2. CASE Down # {}
  <2> DEFINE i == Menu_Index'
  <2>1. shown'[k] = Draw(i, NewField)[k] /\ field' = NewField
    BY <1>2, PollDoes
  <2>2. CASE Page(i)[k] = Blank
    <3>1. shown'[k] = Nothing
      BY <2>1, <2>2 DEF Draw
    <3> QED BY <2>2, <3>1 DEF True, Allowed
  <2>3. CASE Page(i)[k] # Blank
    <3>1. shown'[k] = Slider(NewField, Page(i)[k].param)
      BY <2>1, <2>3 DEF Draw
    <3>2. /\ shown'[k].param = Page(i)[k].param
          /\ shown'[k].value = field'[Page(i)[k].param]
      BY <2>1, <3>1, SliderParts
    <3> QED BY <2>3, <3>2 DEF True, Allowed
  <2> QED BY <2>2, <2>3
<1>3. CASE Down = {}
  <2> DEFINE i == Menu_Index
  <2>1. Menu_Index' = i /\ shown' = NewShown /\ field' = NewField
    BY <1>1, <1>3, PollDoes, NextPage
  <2>2. CASE k \in Wired
    <3>1. handlers = i
      BY <2>2, WiredHere
    <3>2. CASE Page(i)[k] # Blank
      <4>1. shown'[k] = Slider(NewField, Page(i)[k].param)
        BY <2>1, <2>2, <3>1, <3>2 DEF NewShown, Redraw
      <4>2. /\ shown'[k].param = Page(i)[k].param
            /\ shown'[k].value = field'[Page(i)[k].param]
        BY <2>1, <4>1, SliderParts
      <4> QED BY <2>1, <3>2, <4>2 DEF True, Allowed
    <3>3. CASE Page(i)[k] = Blank
      <4>1. shown'[k] = Slider(NewField, Release(i))
        BY <2>1, <2>2, <3>1, <3>3 DEF NewShown, Redraw, Release
      <4>2. /\ shown'[k].param = Release(i)
            /\ shown'[k].value = field'[Release(i)]
        BY <2>1, <4>1, SliderParts
      <4> QED BY <2>1, <3>3, <4>2 DEF True, Allowed, Release
    <3> QED BY <3>2, <3>3
  <2>3. CASE k \notin Wired
    <3>1. shown'[k] = shown[k] /\ True(k) /\ Allowed(k, i)
      BY <2>1, <2>3 DEF NewShown, Redraw, IsShown
    <3>2. Allowed(k, Menu_Index)'
      BY <2>1, <3>1 DEF Allowed, Release
    <3>3. ASSUME shown[k] # Nothing
          PROVE  NewField[shown[k].param] = field[shown[k].param]
      <4>1. CASE Page(i)[k] # Blank
        <5>1. shown[k].param = Page(i)[k].param
          BY <3>1, <4>1 DEF Allowed
        <5> QED BY <2>3, <4>1, <5>1, RestKept
      <4>2. CASE Page(i)[k] = Blank
        <5>1. shown[k].param = Release(i)
          BY <3>1, <3>3, <4>2 DEF Allowed
        <5>2. /\ Release(i) \in Params
              /\ \A l \in Pots : Page(i)[l].param # Release(i)
          BY <1>1, <4>2, BlankQuarter
        <5>3. \A l \in Wired : Page(handlers)[l].param # Release(i)
          BY <5>2, WiredHere
        <5> QED BY <5>1, <5>2, <5>3, FieldKept
      <4> QED BY <4>1, <4>2
    <3>4. True(k)'
      BY <2>1, <3>1, <3>3 DEF True
    <3> QED BY <3>2, <3>4
  <2> QED BY <2>2, <2>3
<1> QED BY <1>2, <1>3

LEMMA Inductive == IInv /\ [Next]_vars => IInv'
<1>1. ASSUME IInv, Poll_Inputs
      PROVE  IInv'
  BY <1>1, PolledTypes, PolledOnPage, PolledNear, PolledSet, PolledShown
  DEF IInv
<1> QED BY <1>1, QuietlyKept

-----------------------------------------------------------------------------
(* The theorems.                                                           *)

(* For any positions of the potentiometers and any calibration, the        *)
(* invariant holds always.                                                 *)
THEOREM PanelInvariant == Spec => []IInv
BY Initially, Inductive, PTL DEF Spec

(* Always Tracks: after a poll the parameters of the page are as the       *)
(* potentiometers stand, to within the threshold.                          *)
THEOREM PotsAreFollowed == Spec => []Tracks
<1>1. IInv => Tracks
  <2> SUFFICES ASSUME IInv, fresh, handlers # Generic, NEW k \in Reliable
               PROVE  Follows(k)
    BY DEF Tracks
  <2>1. Near(Reading(k), seen[k])
    BY DEF IInv, Close
  <2>2. k \in turned => IsSet(k)
    BY SMTT(30) DEF IInv, AreSet
  <2> QED BY <2>1, <2>2 DEF Follows, IsSet
<1> QED BY <1>1, PanelInvariant, PTL

(* Always InScale: a parameter never holds what its field cannot, and a    *)
(* potentiometer at its end gives it the largest value.                    *)
THEOREM FieldsHoldTheirScale == Spec => []InScale
<1>1. IInv => TypeOK
  <2> SUFFICES ASSUME IInv
               PROVE  TypeOK
    OBVIOUS
  <2>1. /\ position \in [Pots -> Positions]
        /\ pressed \subseteq {"left", "right"}
    BY DEF IInv, Types, InputTypes
  <2>2. /\ mux \in Pots
        /\ adc.state \in {"idle", "busy", "done"} /\ adc.data \in Conversions
        /\ potVal \in [Pots -> Conversions]
        /\ shell \in [at : {"idle", "start", "wait"}, pot : Pots]
    BY DEF IInv, Types, ADCTypes
  <2>3. /\ potPrevVal \in [Pots -> Conversions]
        /\ buttonPrev \subseteq {"left", "right"}
        /\ Menu_Index \in PageNo
        /\ handlers \in 0 .. MENU_PAGES
        /\ \A p \in Params : field[p] \in 0 .. Values(p) - 1
        /\ \A k \in Pots : shown[k] = Nothing \/ shown[k].param \in Params
    BY DEF IInv, Types, PollTypes
  <2>4. adc.data \in 0..4095 /\ Menu_Index \in 0 .. MENU_PAGES - 1
    BY <2>2, <2>3 DEF Conversions, PageNo
  <2>5. potVal \in [Pots -> 0..4095]
    <3>1. potVal \in [Pots -> Conversions]
      BY <2>2
    <3>2. \A k \in Pots : potVal[k] \in 0..4095
      BY <3>1 DEF Conversions
    <3> QED BY <3>1, <3>2
  <2>6. potPrevVal \in [Pots -> 0..4095]
    <3>1. potPrevVal \in [Pots -> Conversions]
      BY <2>3
    <3>2. \A k \in Pots : potPrevVal[k] \in 0..4095
      BY <3>1, SMTT(30) DEF Conversions
    <3> QED BY <3>1, <3>2
  <2>7. /\ \A p \in Params : field[p] \in 0 .. Values(p) - 1
        /\ \A k \in Pots : shown[k] = Nothing \/ shown[k].param \in Params
    BY <2>3
  <2> DEFINE Rest == /\ \A p \in Params : field[p] \in 0 .. Values(p) - 1
                     /\ \A k \in Pots : shown[k] = Nothing \/ shown[k].param \in Params
             ADCs == /\ mux \in Pots
                     /\ adc.state \in {"idle", "busy", "done"} /\ adc.data \in 0..4095
                     /\ potVal \in [Pots -> 0..4095] /\ potPrevVal \in [Pots -> 0..4095]
             Buttons == /\ position \in [Pots -> Positions]
                        /\ pressed \subseteq {"left", "right"} /\ buttonPrev \subseteq {"left", "right"}
             Menus == /\ Menu_Index \in 0 .. MENU_PAGES - 1
                      /\ handlers \in 0 .. MENU_PAGES
             Shells == shell \in [at : {"idle", "start", "wait"}, pot : Pots]
  <2>8. Rest /\ Shells
    BY <2>2, <2>7
  <2>9. ADCs /\ Buttons /\ Menus
    BY <2>1, <2>2, <2>3, <2>4, <2>5, <2>6
  <2> QED BY <2>8, <2>9, SMTT(30) DEF TypeOK
<1>2. IInv => EndOfScale
  <2> SUFFICES ASSUME IInv, handlers # Generic, NEW k \in turned \cap Reliable,
                      Page(Menu_Index)[k].param # Blank.param, seen[k] = 4095
               PROVE  LET param == Page(Menu_Index)[k].param
                      IN  field[param] = Values(param) - 1
    BY DEF EndOfScale
  <2>1. Page(Menu_Index)[k] # Blank /\ Menu_Index \in PageNo /\ k \in Pots
    BY DEF IInv, Types, PollTypes
  <2>2. IsSet(k)
    BY DEF IInv, AreSet
  <2>3. field[Page(Menu_Index)[k].param]
          = Stored(Page(Menu_Index)[k].param,
                   Clamp(4095, Page(Menu_Index)[k].scale))
    BY <2>1, <2>2 DEF IsSet
  <2> QED BY <2>1, <2>3, End
<1>3. IInv => InScale
  BY <1>1, <1>2 DEF InScale
<1> QED BY <1>3, PanelInvariant, PTL

(* Always ShownIsStored: what the display shows is in the registers.       *)
THEOREM DisplayIsTrue == Spec => []ShownIsStored
<1>1. IInv => ShownIsStored
  BY DEF IInv, IsShown, True, Allowed, ShownIsStored
<1> QED BY <1>1, PanelInvariant, PTL

(* OnlyWhenMoved: a parameter changes only by its own potentiometer, moved *)
(* by more than the threshold since its handler last saw it.               *)
THEOREM NothingElseChanges == Spec => OnlyWhenMoved
<1> DEFINE Cause(p) ==
      \E k \in Pots :
        /\ handlers # Generic
        /\ Page(handlers)[k].param = p
        /\ (k = 1 /\ mixed') \/ Moved(Reading(k), seen[k])
<1>1. ASSUME IInv, [Next]_vars, NEW p \in Params, field'[p] # field[p]
      PROVE  Cause(p)
  <2>1. Poll_Inputs
    BY <1>1, Quietly DEF IInv, pollVars
  <2>2. PICK k \in Wired : Page(handlers)[k].param = p
    BY <1>1, <2>1, PollDoes, FieldKept
  <2>3. k \in MovedPots /\ k \in Pots /\ handlers # Generic
    BY <2>2 DEF Wired, MovedPots
  <2>4. CASE k \in Reliable'
    <3>1. Read_Potentiometers[k] = Reading(k) /\ potPrevVal[k] = seen[k]
      BY <1>1, <2>1, <2>4, ReadsOwn DEF IInv, Compares
    <3> QED BY <2>2, <2>3, <3>1 DEF MovedPots
  <2>5. CASE k \notin Reliable'
    <3>1. k = 1 /\ mixed'
      BY <2>3, <2>5 DEF Reliable, Pots
    <3> QED BY <2>2, <2>3, <3>1
  <2> QED BY <2>4, <2>5
<1>2. IInv /\ [Next]_vars =>
        [\A p \in Params : field'[p] # field[p] => Cause(p)]_vars
  BY <1>1
<1> QED BY <1>2, PanelInvariant, PTL DEF Spec, OnlyWhenMoved
-----------------------------------------------------------------------------
(* The writes to the YM3812.                                               *)
Writing(c) == pc[c] \notin {"rest", "reset"}

(* An interrupt handler that has not ended runs; the thread alone holds    *)
(* the chip in reset; who writes has a write in hand.                      *)
Turns ==
  /\ \A c \in Interrupts : pc[c] # "reset" /\ (pc[c] # "rest" => running = c)
  /\ \A c \in Callers : Writing(c) => job[c] \in [reg : Bytes, value : Bytes]

(* What an interrupt's own write has left on the pins and in the chip,     *)
(* step by step.                                                           *)
OnPins(c) ==
  /\ pc[c] \in {"address1", "address2", "strobe1"} => a0 = 0
  /\ pc[c] = "address2" => half = [of |-> c, byte |-> job[c].reg]
  /\ pc[c] = "strobe1" => shift = job[c].reg
  /\ pc[c] \in {"raise", "data1", "data2", "strobe2"} /\ ic = 1 => latch = job[c].reg
  /\ pc[c] \in {"data1", "data2", "strobe2"} => a0 = 1
  /\ pc[c] = "data2" => half = [of |-> c, byte |-> job[c].value]
  /\ pc[c] = "strobe2" => shift = job[c].value

(* Until the shell touches it, the chip differs from the shadow only in    *)
(* the register that is being written.                                     *)
Shadowed ==
  ~touched =>
    /\ ic = 1 /\ pc["thread"] = "rest"
    /\ \A c \in Interrupts :
         pc[c] # "rest" => shadow = [chip EXCEPT ![job[c].reg] = job[c].value]
    /\ (\A c \in Interrupts : pc[c] = "rest") => shadow = chip

BusInv == BusTypeOK /\ Turns /\ (\A c \in Interrupts : OnPins(c)) /\ Shadowed

-----------------------------------------------------------------------------
(* At start nobody writes.                                                 *)
LEMMA InitBusInv == ASSUME BusInit PROVE BusInv
<1> USE YM3812Assumption
<1>1. BusTypeOK
  BY DEF BusInit, BusTypeOK, Callers, Steps
<1>2. Turns /\ (\A c \in Interrupts : OnPins(c)) /\ Shadowed
  BY DEF BusInit, Turns, Writing, OnPins, Shadowed, Callers, Interrupts
<1> QED BY <1>1, <1>2 DEF BusInv

(* What the edge of WR does, by the levels of IC and A0.                   *)
LEMMA StrobeResult ==
  ASSUME BusTypeOK, NEW c, Strobe(c)
  PROVE  /\ ic = 0 => chip' = chip /\ latch' = latch
         /\ ic = 1 /\ a0 = 0 => chip' = chip /\ latch' = shift
         /\ ic = 1 /\ a0 = 1 => chip' = [chip EXCEPT ![latch] = shift] /\ latch' = latch
         /\ UNCHANGED <<shift, half, a0, ic, shadow, running, touched>>
<1>1. ic \in {0, 1} /\ a0 \in {0, 1}
  BY DEF BusTypeOK
<1>2. CASE ic = 0
  BY <1>2 DEF Strobe
<1>3. CASE ic = 1 /\ a0 = 0
  BY <1>3 DEF Strobe
<1>4. CASE ic = 1 /\ a0 = 1
  BY <1>4 DEF Strobe
<1> QED BY <1>1, <1>2, <1>3, <1>4

(* Every action keeps the types.                                           *)
LEMMA TypeInv == ASSUME BusInv, [BusNext]_busVars PROVE BusTypeOK'
<1> USE YM3812Assumption DEF Callers, Steps
<1>0. BusTypeOK /\ Turns
  BY DEF BusInv
<1>1. CASE ResetLow
  BY <1>0, <1>1 DEF ResetLow, Goto, BusTypeOK
<1>2. CASE ResetHigh
  BY <1>0, <1>2 DEF ResetHigh, Goto, BusTypeOK
<1>3. ASSUME NEW c \in Callers, Enter(c) \/ Return(c) PROVE BusTypeOK'
  BY <1>0, <1>3 DEF Enter, Return, BusTypeOK
<1>4. ASSUME NEW c \in Callers, NEW r \in Bytes, NEW v \in Bytes, Begin(c, r, v)
      PROVE  BusTypeOK'
  BY <1>0, <1>4 DEF Begin, Goto, BusTypeOK
<1>5. ASSUME NEW c \in Callers, SelectAddress(c) \/ SelectData(c) PROVE BusTypeOK'
  BY <1>0, <1>5 DEF SelectAddress, SelectData, Goto, BusTypeOK
<1>6. ASSUME NEW c \in Callers, NEW from, NEW to \in Steps, NEW b \in Bytes,
             ShiftFirst(c, from, to, b) \/ ShiftRest(c, from, to, b)
      PROVE  BusTypeOK'
  BY <1>0, <1>6 DEF ShiftFirst, ShiftRest, Goto, BusTypeOK
<1>7. ASSUME NEW c \in Callers, StrobeAddress(c) \/ StrobeData(c) PROVE BusTypeOK'
  <2>1. Strobe(c) /\ job' \in {job, [job EXCEPT ![c] = None]}
    BY <1>7 DEF StrobeAddress, StrobeData
  <2>2. chip' \in [Bytes -> Bytes] /\ latch' \in Bytes
          /\ UNCHANGED <<shift, half, a0, ic, shadow, running, touched>>
    <3>1. chip \in [Bytes -> Bytes] /\ latch \in Bytes /\ shift \in Bytes
            /\ ic \in {0, 1} /\ a0 \in {0, 1}
      BY <1>0 DEF BusTypeOK
    <3> QED BY <1>0, <2>1, <3>1, StrobeResult
  <2>3. pc' \in [Callers -> Steps]
    BY <1>0, <1>7 DEF StrobeAddress, StrobeData, Goto, BusTypeOK
  <2>4. job' \in [Callers -> {None} \cup [reg : Bytes, value : Bytes]]
    BY <1>0, <2>1 DEF BusTypeOK
  <2> QED BY <1>0, <2>2, <2>3, <2>4 DEF BusTypeOK
<1>8. CASE UNCHANGED busVars
  BY <1>0, <1>8 DEF busVars, BusTypeOK
<1>9. ASSUME NEW c \in Callers, YM3812_Write_Full(c) PROVE BusTypeOK'
  <2>1. pc[c] \in {"address1", "address2", "data1", "data2"}
          => job[c].reg \in Bytes /\ job[c].value \in Bytes
    BY <1>0 DEF Turns, Writing
  <2> QED BY <1>5, <1>6, <1>7, <1>9, <2>1
          DEF YM3812_Write_Full, ShiftFirst, ShiftRest, Goto
<1> QED BY <1>1, <1>2, <1>3, <1>4, <1>8, <1>9 DEF BusNext

Rest == Turns /\ (\A c \in Interrupts : OnPins(c)) /\ Shadowed

(* While the thread runs no interrupt is in a write.                       *)
LEMMA OthersRest ==
  ASSUME BusInv, NEW c \in Interrupts, running # c PROVE pc[c] = "rest"
<1> QED BY DEF BusInv, Turns

(* What the shell's thread does concerns no interrupt's write, and it is   *)
(* remembered.                                                             *)
LEMMA ThreadInv ==
  ASSUME BusInv, running = "thread", running' = running, touched' = TRUE,
         NEW to \in Steps, pc' = [pc EXCEPT !["thread"] = to],
         \A c \in Interrupts : job'[c] = job[c],
         to \notin {"rest", "reset"} => job'["thread"] \in [reg : Bytes, value : Bytes]
  PROVE  Rest'
<1> USE DEF Interrupts, Callers
<1>1. \A c \in Interrupts : pc[c] = "rest" /\ pc'[c] = "rest"
  BY OthersRest DEF BusInv, BusTypeOK
<1>2. pc'["thread"] = to
  BY DEF BusInv, BusTypeOK
<1>3. Turns'
  BY <1>1, <1>2 DEF Turns, Writing
<1>4. \A c \in Interrupts : OnPins(c)'
  BY <1>1 DEF OnPins
<1>5. Shadowed'
  BY DEF Shadowed
<1> QED BY <1>3, <1>4, <1>5 DEF Rest

(* To enter or leave a handler changes nothing else.                       *)
LEMMA SwitchInv ==
  ASSUME BusInv, NEW d \in Callers, Enter(d) \/ Return(d) PROVE Rest'
<1> USE DEF Interrupts, Callers
<1>1. \A c \in Interrupts : pc[c] = "rest"
  BY OthersRest DEF Enter, Return, Preempts
<1>2. UNCHANGED <<chip, latch, shift, half, a0, ic, shadow, pc, job, touched>>
  BY DEF Enter, Return
<1> QED BY <1>1, <1>2 DEF BusInv, Rest, Turns, Writing, OnPins, Shadowed

(* An interrupt that begins a write finds shadow and chip equal, or both   *)
(* touched.                                                                *)
LEMMA BeginInv ==
  ASSUME BusInv, NEW c \in Interrupts, NEW r \in Bytes, NEW v \in Bytes, Begin(c, r, v)
  PROVE  Rest'
<1> USE DEF Interrupts, Callers
<1>1. /\ running = c /\ running' = c /\ pc[c] = "rest" /\ pc' = [pc EXCEPT ![c] = "select"]
      /\ job' = [job EXCEPT ![c] = [reg |-> r, value |-> v]]
      /\ shadow' = [shadow EXCEPT ![r] = v] /\ touched' = (touched \/ c = "thread")
      /\ UNCHANGED <<chip, ic>>
  BY DEF Begin, Goto
<1>2. \A d \in Interrupts : pc[d] = "rest"
  BY <1>1, OthersRest
<1>3. /\ pc'[c] = "select" /\ job'[c] = [reg |-> r, value |-> v]
      /\ \A d \in Callers \ {c} : pc'[d] = pc[d] /\ job'[d] = job[d]
  BY <1>1 DEF BusInv, BusTypeOK
<1>4. Turns'
  BY <1>1, <1>2, <1>3 DEF BusInv, Turns, Writing
<1>5. \A d \in Interrupts : OnPins(d)'
  BY <1>2, <1>3 DEF OnPins
<1>6. Shadowed'
  <2> SUFFICES ASSUME ~touched' PROVE Shadowed'
    BY DEF Shadowed
  <2>1. ~touched
    BY <1>1
  <2>2. ic = 1 /\ pc["thread"] = "rest" /\ shadow = chip
    BY <1>2, <2>1 DEF BusInv, Shadowed
  <2>3. shadow' = [chip' EXCEPT ![job'[c].reg] = job'[c].value]
    <3>1. job'[c].reg = r /\ job'[c].value = v
      BY <1>3
    <3>2. chip' = shadow
      BY <1>1, <2>2
    <3> QED BY <1>1, <3>1, <3>2, Zenon
  <2> QED BY <1>1, <1>2, <1>3, <2>2, <2>3, ZenonT(40) DEF Shadowed
<1> QED BY <1>4, <1>5, <1>6 DEF Rest

(* A step of an interrupt's write other than the last leaves the chip as it*)
(* is, and the pins as the next step needs them.                           *)
LEMMA WriteStep ==
  ASSUME BusInv, NEW c \in Interrupts, YM3812_Write_Full(c), ~StrobeData(c)
  PROVE  /\ running = c /\ UNCHANGED <<chip, ic, shadow, running, job, touched>>
         /\ pc[c] \in Steps \ {"rest", "reset"} /\ pc'[c] \in Steps \ {"rest", "reset"}
         /\ pc' = [pc EXCEPT ![c] = pc'[c]]
         /\ OnPins(c)'
<1> USE DEF Interrupts, Callers
<1>0. BusTypeOK /\ OnPins(c)
  BY DEF BusInv
<1>1. pc \in [Callers -> Steps]
  BY <1>0 DEF BusTypeOK
<1>2. CASE SelectAddress(c)
  BY <1>0, <1>1, <1>2 DEF SelectAddress, Goto, OnPins, Steps
<1>3. CASE ShiftFirst(c, "address1", "address2", job[c].reg)
  BY <1>0, <1>1, <1>3 DEF ShiftFirst, Goto, OnPins, Steps
<1>4. CASE ShiftRest(c, "address2", "strobe1", job[c].reg)
  BY <1>0, <1>1, <1>4 DEF ShiftRest, Goto, OnPins, Steps
<1>5. CASE StrobeAddress(c)
  <2>1. running = c /\ pc[c] = "strobe1" /\ pc' = [pc EXCEPT ![c] = "raise"]
          /\ Strobe(c) /\ job' = job
    BY <1>5 DEF StrobeAddress, Goto
  <2>2. a0 = 0 /\ shift = job[c].reg
    BY <1>0, <2>1 DEF OnPins
  <2>3. chip' = chip /\ (ic = 1 => latch' = shift)
          /\ UNCHANGED <<shift, half, a0, ic, shadow, running, touched>>
    BY <1>0, <2>1, <2>2, StrobeResult DEF BusTypeOK
  <2> QED BY <1>1, <2>1, <2>2, <2>3 DEF OnPins, Steps
<1>6. CASE SelectData(c)
  BY <1>0, <1>1, <1>6 DEF SelectData, Goto, OnPins, Steps
<1>7. CASE ShiftFirst(c, "data1", "data2", job[c].value)
  BY <1>0, <1>1, <1>7 DEF ShiftFirst, Goto, OnPins, Steps
<1>8. CASE ShiftRest(c, "data2", "strobe2", job[c].value)
  BY <1>0, <1>1, <1>8 DEF ShiftRest, Goto, OnPins, Steps
<1> QED BY <1>2, <1>3, <1>4, <1>5, <1>6, <1>7, <1>8 DEF YM3812_Write_Full

(* The last step puts the value in the register, unless the chip is held   *)
(* in reset.                                                               *)
LEMMA LastStep ==
  ASSUME BusInv, NEW c \in Interrupts, StrobeData(c)
  PROVE  /\ running = c /\ pc[c] = "strobe2" /\ pc' = [pc EXCEPT ![c] = "rest"]
         /\ ic = 1 => chip' = [chip EXCEPT ![job[c].reg] = job[c].value]
         /\ job' = [job EXCEPT ![c] = None]
         /\ UNCHANGED <<ic, shadow, running, touched>>
<1>1. /\ running = c /\ pc[c] = "strobe2" /\ pc' = [pc EXCEPT ![c] = "rest"]
      /\ Strobe(c) /\ job' = [job EXCEPT ![c] = None]
  BY DEF StrobeData, Goto
<1>2. a0 = 1 /\ shift = job[c].value /\ (ic = 1 => latch = job[c].reg)
  BY <1>1 DEF BusInv, OnPins
<1> QED BY <1>1, <1>2, StrobeResult DEF BusInv

(* A step of an interrupt's write keeps the strengthened invariant.        *)
LEMMA WriteInv ==
  ASSUME BusInv, NEW c \in Interrupts, YM3812_Write_Full(c) PROVE Rest'
<1> USE DEF Interrupts, Callers
<1>0. pc \in [Callers -> Steps] /\ job \in [Callers -> {None} \cup [reg : Bytes, value : Bytes]]
  BY DEF BusInv, BusTypeOK
<1>1. running = c /\ running' = c
  BY WriteStep, LastStep
<1>2. \A d \in Interrupts \ {c} : pc[d] = "rest"
  BY <1>1, OthersRest
<1>3. \A d \in Callers \ {c} : pc'[d] = pc[d] /\ job'[d] = job[d]
  BY <1>0, WriteStep, LastStep
<1>4. \A d \in Interrupts \ {c} : OnPins(d)'
  BY <1>2, <1>3 DEF OnPins
<1>5. CASE ~StrobeData(c)
  <2>1. Turns'
    BY <1>1, <1>3, <1>5, WriteStep DEF BusInv, Turns, Writing
  <2>2. Shadowed'
    BY <1>3, <1>5, WriteStep DEF BusInv, Shadowed
  <2> QED BY <1>4, <1>5, <2>1, <2>2, WriteStep DEF Rest
<1>6. CASE StrobeData(c)
  <2>1. pc'[c] = "rest" /\ \A d \in Interrupts : pc'[d] = "rest"
    BY <1>0, <1>2, <1>3, <1>6, LastStep
  <2>2. Turns'
    BY <1>1, <1>3, <2>1 DEF BusInv, Turns, Writing
  <2>3. OnPins(c)'
    BY <2>1 DEF OnPins
  <2>4. Shadowed'
    BY <1>3, <1>6, <2>1, LastStep DEF BusInv, Shadowed
  <2> QED BY <1>4, <2>2, <2>3, <2>4 DEF Rest
<1> QED BY <1>5, <1>6

(* A step of the shell's write, which set touched when it began.           *)
LEMMA ThreadWriteInv == ASSUME BusInv, YM3812_Write_Full("thread") PROVE Rest'
<1> USE DEF Interrupts, Callers
<1>1. pc \in [Callers -> Steps] /\ job \in [Callers -> {None} \cup [reg : Bytes, value : Bytes]]
  BY DEF BusInv, BusTypeOK
<1>2. /\ running = "thread" /\ pc["thread"] \in Steps \ {"rest", "reset"}
      /\ UNCHANGED <<running, touched>>
      /\ \/ StrobeData("thread")
         \/ job' = job /\ \E to \in Steps \ {"rest", "reset"} : pc' = [pc EXCEPT !["thread"] = to]
  BY DEF YM3812_Write_Full, SelectAddress, ShiftFirst, ShiftRest, StrobeAddress, SelectData,
         StrobeData, Strobe, Goto, Steps
<1>3. touched /\ touched' = TRUE
  BY <1>2 DEF BusInv, Shadowed, BusTypeOK
<1>4. CASE StrobeData("thread")
  <2>1. /\ pc' = [pc EXCEPT !["thread"] = "rest"]
        /\ \A c \in Interrupts : job'[c] = job[c]
    BY <1>1, <1>4 DEF StrobeData, Goto
  <2>2. "rest" \in Steps
    BY DEF Steps
  <2> QED BY <1>2, <1>3, <2>1, <2>2, ThreadInv
<1>5. ASSUME job' = job, NEW to \in Steps, pc' = [pc EXCEPT !["thread"] = to] PROVE Rest'
  <2>1. job'["thread"] \in [reg : Bytes, value : Bytes]
    BY <1>2, <1>5 DEF BusInv, Turns, Writing
  <2> QED BY <1>2, <1>3, <1>5, <2>1, ThreadInv
<1> QED BY <1>2, <1>4, <1>5

(* Every step keeps the strengthened invariant.                            *)
LEMMA StepInv == ASSUME BusInv, [BusNext]_busVars PROVE BusInv'
<1>0. BusTypeOK /\ "rest" \in Steps /\ "reset" \in Steps /\ "select" \in Steps
  BY DEF BusInv, Steps
<1>1. ASSUME ResetLow PROVE Rest'
  <2>1. /\ running = "thread" /\ running' = running /\ touched' = TRUE
        /\ pc' = [pc EXCEPT !["thread"] = "reset"] /\ job' = job
    BY <1>1 DEF ResetLow, Goto
  <2> QED BY <1>0, <2>1, ThreadInv
<1>2. ASSUME ResetHigh PROVE Rest'
  <2>1. /\ running = "thread" /\ running' = running /\ touched' = touched
        /\ pc["thread"] = "reset"
        /\ pc' = [pc EXCEPT !["thread"] = "rest"] /\ job' = job
    BY <1>2 DEF ResetHigh, Goto
  <2>2. touched' = TRUE
    BY <1>0, <2>1 DEF BusInv, Shadowed, BusTypeOK
  <2> QED BY <1>0, <2>1, <2>2, ThreadInv
<1>3. ASSUME NEW r \in Bytes, NEW v \in Bytes, Begin("thread", r, v) PROVE Rest'
  <2>1. /\ running = "thread" /\ running' = running /\ touched' = TRUE
        /\ pc' = [pc EXCEPT !["thread"] = "select"]
        /\ job' = [job EXCEPT !["thread"] = [reg |-> r, value |-> v]]
    BY <1>3 DEF Begin, Goto
  <2>2. /\ \A c \in Interrupts : job'[c] = job[c]
        /\ job'["thread"] \in [reg : Bytes, value : Bytes]
    BY <1>0, <2>1 DEF BusTypeOK, Interrupts, Callers
  <2> QED BY <1>0, <2>1, <2>2, ThreadInv
<1>4. ASSUME UNCHANGED busVars PROVE Rest'
  BY <1>4 DEF busVars, Rest, BusInv, Turns, Writing, OnPins, Shadowed
<1>5. Callers = Interrupts \cup {"thread"}
  BY DEF Callers, Interrupts
<1>6. Rest'
  BY <1>1, <1>2, <1>3, <1>4, <1>5, SwitchInv, BeginInv, WriteInv, ThreadWriteInv DEF BusNext
<1> QED BY <1>6, TypeInv DEF BusInv, Rest

-----------------------------------------------------------------------------
(* The pins, the chip and the contexts keep their types.                   *)
THEOREM BusTypes == BusSpec => []BusTypeOK
<1>1. BusInv => BusTypeOK
  BY DEF BusInv
<1> QED BY <1>1, InitBusInv, StepInv, PTL DEF BusSpec

(* For every set of bytes: as long as the shell has not written or reset,  *)
(* the shadow is what the chip holds, whenever no write is under way,      *)
(* though two interrupts write with nothing but masking between them.      *)
THEOREM Mirrors == BusSpec => []ShadowIsChip
<1>1. BusInv => ShadowIsChip
  BY DEF BusInv, Shadowed, ShadowIsChip, Callers, Interrupts
<1> QED BY <1>1, InitBusInv, StepInv, PTL DEF BusSpec

(* For every set of bytes, and wherever the shell's own write or reset was *)
(* interrupted: what an interrupt handler writes lands in the register it  *)
(* is for, and nothing else of it reaches the chip.                        *)
THEOREM Landing == BusSpec => InterruptWritesLand
<1> DEFINE Land == \A c \in Interrupts : running = c =>
                     /\ ic = 1 /\ WriteEnds(c) => Lands(c)
                     /\ ~WriteEnds(c) => UNCHANGED chip
<1>1. ASSUME BusInv, BusNext, NEW c \in Interrupts, running = c
      PROVE  /\ ic = 1 /\ WriteEnds(c) => Lands(c)
             /\ ~WriteEnds(c) => UNCHANGED chip
  <2>1. pc \in [Callers -> Steps] /\ c \in Callers /\ c # "thread"
    BY <1>1 DEF BusInv, BusTypeOK, Callers, Interrupts
  <2>2. CASE YM3812_Write_Full(c) /\ StrobeData(c)
    BY <1>1, <2>1, <2>2, LastStep DEF WriteEnds, Lands
  <2>3. CASE YM3812_Write_Full(c) /\ ~StrobeData(c)
    BY <1>1, <2>1, <2>3, WriteStep DEF WriteEnds
  <2>4. ASSUME NEW r \in Bytes, NEW v \in Bytes, Begin(c, r, v)
        PROVE  ~WriteEnds(c) /\ UNCHANGED chip
    BY <2>1, <2>4 DEF Begin, Goto, WriteEnds
  <2>5. ASSUME NEW d \in Callers, Enter(d) \/ Return(d)
        PROVE  ~WriteEnds(c) /\ UNCHANGED chip
    BY <2>5 DEF Enter, Return, WriteEnds
  <2>6. ASSUME NEW d \in Callers, d # c
        PROVE  ~YM3812_Write_Full(d) /\ \A r, v \in Bytes : ~Begin(d, r, v)
    BY <1>1, <2>6 DEF YM3812_Write_Full, SelectAddress, ShiftFirst, ShiftRest,
                      StrobeAddress, SelectData, StrobeData, Begin, Goto
  <2>7. ~ResetLow /\ ~ResetHigh
    BY <1>1, <2>1 DEF ResetLow, ResetHigh, Goto
  <2> QED BY <1>1, <2>2, <2>3, <2>4, <2>5, <2>6, <2>7 DEF BusNext
<1>2. BusInv /\ [BusNext]_busVars => [Land]_busVars
  BY <1>1 DEF Land
<1> HIDE DEF Land
<1>3. BusSpec => [][Land]_busVars
  BY <1>2, InitBusInv, StepInv, PTL DEF BusSpec
<1> QED BY <1>3 DEF InterruptWritesLand, Land
-----------------------------------------------------------------------------
(* A byte as a function from the numbers of its bits to their values.      *)
Byte == 0..255
BitsOf == [0..7 -> 0..1]
AsByte(b) ==
  b[0] + 2 * b[1] + 4 * b[2] + 8 * b[3] + 16 * b[4] + 32 * b[5] + 64 * b[6] + 128 * b[7]

LEMMA HasBits ==
  ASSUME NEW x \in Byte
  PROVE  \E b \in BitsOf : x = AsByte(b)
<1> DEFINE w(i) == CASE i = 0 -> 1 [] i = 1 -> 2 [] i = 2 -> 4 [] i = 3 -> 8
                     [] i = 4 -> 16 [] i = 5 -> 32 [] i = 6 -> 64 [] i = 7 -> 128
           b == [i \in 0..7 |-> (x \div w(i)) % 2]
<1>1. /\ b[0] = x % 2 /\ b[1] = (x \div 2) % 2 /\ b[2] = (x \div 4) % 2
      /\ b[3] = (x \div 8) % 2 /\ b[4] = (x \div 16) % 2 /\ b[5] = (x \div 32) % 2
      /\ b[6] = (x \div 64) % 2 /\ b[7] = (x \div 128) % 2
  BY DEF Byte
<1>2. b \in BitsOf
  <2>1. \A i \in 0..7 : w(i) \in {1, 2, 4, 8, 16, 32, 64, 128}
    OBVIOUS
  <2>2. \A i \in 0..7 : (x \div w(i)) % 2 \in 0..1
    BY <2>1 DEF Byte
  <2> QED  BY <2>2 DEF BitsOf
<1> HIDE DEF b
<1>3. x = AsByte(b)
  BY <1>1 DEF AsByte, Byte
<1> QED  BY <1>2, <1>3

LEMMA BitAt ==
  ASSUME NEW b \in BitsOf
  PROVE  /\ AsByte(b) \in Byte
         /\ \A i \in 0..7 : b[i] \in 0..1
         /\ (AsByte(b) \div 1) % 2 = b[0] /\ (AsByte(b) \div 2) % 2 = b[1]
         /\ (AsByte(b) \div 4) % 2 = b[2] /\ (AsByte(b) \div 8) % 2 = b[3]
         /\ (AsByte(b) \div 16) % 2 = b[4] /\ (AsByte(b) \div 32) % 2 = b[5]
         /\ (AsByte(b) \div 64) % 2 = b[6] /\ (AsByte(b) \div 128) % 2 = b[7]
<1>1. /\ b[0] \in 0..1 /\ b[1] \in 0..1 /\ b[2] \in 0..1 /\ b[3] \in 0..1
      /\ b[4] \in 0..1 /\ b[5] \in 0..1 /\ b[6] \in 0..1 /\ b[7] \in 0..1
  BY DEF BitsOf
<1> QED  BY <1>1 DEF AsByte, Byte, BitsOf

(* What & makes of a byte and a mask.                                      *)
LEMMA Masked ==
  ASSUME NEW b \in BitsOf
  PROVE  /\ AsByte(b) & 0 = 0
         /\ AsByte(b) & 1 = b[0]
         /\ AsByte(b) & 2 = 2 * b[1]
         /\ AsByte(b) & 3 = b[0] + 2 * b[1]
         /\ AsByte(b) & 4 = 4 * b[2]
         /\ AsByte(b) & 7 = b[0] + 2 * b[1] + 4 * b[2]
         /\ AsByte(b) & 8 = 8 * b[3]
         /\ AsByte(b) & 14 = 2 * b[1] + 4 * b[2] + 8 * b[3]
         /\ AsByte(b) & 15 = b[0] + 2 * b[1] + 4 * b[2] + 8 * b[3]
         /\ AsByte(b) & 16 = 16 * b[4]
         /\ AsByte(b) & 28 = 4 * b[2] + 8 * b[3] + 16 * b[4]
         /\ AsByte(b) & 31 = b[0] + 2 * b[1] + 4 * b[2] + 8 * b[3] + 16 * b[4]
         /\ AsByte(b) & 32 = 32 * b[5]
         /\ AsByte(b) & 63 = b[0] + 2 * b[1] + 4 * b[2] + 8 * b[3] + 16 * b[4]
                                + 32 * b[5]
         /\ AsByte(b) & 64 = 64 * b[6]
         /\ AsByte(b) & 112 = 16 * b[4] + 32 * b[5] + 64 * b[6]
         /\ AsByte(b) & 127 = b[0] + 2 * b[1] + 4 * b[2] + 8 * b[3] + 16 * b[4]
                                + 32 * b[5] + 64 * b[6]
         /\ AsByte(b) & 128 = 128 * b[7]
         /\ AsByte(b) & 191 = b[0] + 2 * b[1] + 4 * b[2] + 8 * b[3] + 16 * b[4]
                                + 32 * b[5] + 128 * b[7]
         /\ AsByte(b) & 192 = 64 * b[6] + 128 * b[7]
         /\ AsByte(b) & 223 = b[0] + 2 * b[1] + 4 * b[2] + 8 * b[3] + 16 * b[4]
                                + 64 * b[6] + 128 * b[7]
         /\ AsByte(b) & 224 = 32 * b[5] + 64 * b[6] + 128 * b[7]
         /\ AsByte(b) & 227 = b[0] + 2 * b[1] + 32 * b[5] + 64 * b[6] + 128 * b[7]
         /\ AsByte(b) & 239 = b[0] + 2 * b[1] + 4 * b[2] + 8 * b[3] + 32 * b[5]
                                + 64 * b[6] + 128 * b[7]
         /\ AsByte(b) & 240 = 16 * b[4] + 32 * b[5] + 64 * b[6] + 128 * b[7]
         /\ AsByte(b) & 241 = b[0] + 16 * b[4] + 32 * b[5] + 64 * b[6] + 128 * b[7]
         /\ AsByte(b) & 248 = 8 * b[3] + 16 * b[4] + 32 * b[5] + 64 * b[6] + 128 * b[7]
         /\ AsByte(b) & 252 = 4 * b[2] + 8 * b[3] + 16 * b[4] + 32 * b[5] + 64 * b[6]
                                + 128 * b[7]
         /\ AsByte(b) & 254 = 2 * b[1] + 4 * b[2] + 8 * b[3] + 16 * b[4] + 32 * b[5]
                                + 64 * b[6] + 128 * b[7]
         /\ AsByte(b) & 255 = b[0] + 2 * b[1] + 4 * b[2] + 8 * b[3] + 16 * b[4]
                                + 32 * b[5] + 64 * b[6] + 128 * b[7]
<1> DEFINE bit(y, i, w) == IF b[i] = 1 /\ (y \div w) % 2 = 1 THEN w ELSE 0
<1>1. ASSUME NEW y
      PROVE  AsByte(b) & y = bit(y, 0, 1) + bit(y, 1, 2) + bit(y, 2, 4) + bit(y, 3, 8)
                             + bit(y, 4, 16) + bit(y, 5, 32) + bit(y, 6, 64) + bit(y, 7, 128)
  BY BitAt DEF &
<1>2. \A i \in 0..7 : b[i] = 0 \/ b[i] = 1
  BY DEF BitsOf
<1>3. AsByte(b) & 0 = 0
  BY <1>1, <1>2
<1>4. AsByte(b) & 1 = b[0]
  BY <1>1, <1>2
<1>5. AsByte(b) & 3 = b[0] + 2 * b[1]
  BY <1>1, <1>2
<1>6. AsByte(b) & 7 = b[0] + 2 * b[1] + 4 * b[2]
  BY <1>1, <1>2
<1>7. AsByte(b) & 14 = 2 * b[1] + 4 * b[2] + 8 * b[3]
  BY <1>1, <1>2
<1>8. AsByte(b) & 15 = b[0] + 2 * b[1] + 4 * b[2] + 8 * b[3]
  BY <1>1, <1>2
<1>9. AsByte(b) & 16 = 16 * b[4]
  BY <1>1, <1>2
<1>10. AsByte(b) & 28 = 4 * b[2] + 8 * b[3] + 16 * b[4]
  BY <1>1, <1>2
<1>11. AsByte(b) & 31 = b[0] + 2 * b[1] + 4 * b[2] + 8 * b[3] + 16 * b[4]
  BY <1>1, <1>2
<1>12. AsByte(b) & 32 = 32 * b[5]
  BY <1>1, <1>2
<1>13. AsByte(b) & 63 = b[0] + 2 * b[1] + 4 * b[2] + 8 * b[3] + 16 * b[4] + 32 * b[5]
  BY <1>1, <1>2
<1>14. AsByte(b) & 64 = 64 * b[6]
  BY <1>1, <1>2
<1>15. AsByte(b) & 112 = 16 * b[4] + 32 * b[5] + 64 * b[6]
  BY <1>1, <1>2
<1>16. AsByte(b) & 127 = b[0] + 2 * b[1] + 4 * b[2] + 8 * b[3] + 16 * b[4] + 32 * b[5]
          + 64 * b[6]
  BY <1>1, <1>2
<1>17. AsByte(b) & 128 = 128 * b[7]
  BY <1>1, <1>2
<1>18. AsByte(b) & 191 = b[0] + 2 * b[1] + 4 * b[2] + 8 * b[3] + 16 * b[4] + 32 * b[5]
          + 128 * b[7]
  BY <1>1, <1>2
<1>19. AsByte(b) & 192 = 64 * b[6] + 128 * b[7]
  BY <1>1, <1>2
<1>20. AsByte(b) & 223 = b[0] + 2 * b[1] + 4 * b[2] + 8 * b[3] + 16 * b[4] + 64 * b[6]
          + 128 * b[7]
  BY <1>1, <1>2
<1>21. AsByte(b) & 224 = 32 * b[5] + 64 * b[6] + 128 * b[7]
  BY <1>1, <1>2
<1>22. AsByte(b) & 227 = b[0] + 2 * b[1] + 32 * b[5] + 64 * b[6] + 128 * b[7]
  BY <1>1, <1>2
<1>23. AsByte(b) & 239 = b[0] + 2 * b[1] + 4 * b[2] + 8 * b[3] + 32 * b[5] + 64 * b[6]
          + 128 * b[7]
  BY <1>1, <1>2
<1>24. AsByte(b) & 240 = 16 * b[4] + 32 * b[5] + 64 * b[6] + 128 * b[7]
  BY <1>1, <1>2
<1>25. AsByte(b) & 241 = b[0] + 16 * b[4] + 32 * b[5] + 64 * b[6] + 128 * b[7]
  BY <1>1, <1>2
<1>26. AsByte(b) & 248 = 8 * b[3] + 16 * b[4] + 32 * b[5] + 64 * b[6] + 128 * b[7]
  BY <1>1, <1>2
<1>27. AsByte(b) & 252 = 4 * b[2] + 8 * b[3] + 16 * b[4] + 32 * b[5] + 64 * b[6] + 128 * b[7]
  BY <1>1, <1>2
<1>28. AsByte(b) & 254 = 2 * b[1] + 4 * b[2] + 8 * b[3] + 16 * b[4] + 32 * b[5] + 64 * b[6]
          + 128 * b[7]
  BY <1>1, <1>2
<1>29. AsByte(b) & 255 = b[0] + 2 * b[1] + 4 * b[2] + 8 * b[3] + 16 * b[4] + 32 * b[5]
          + 64 * b[6] + 128 * b[7]
  BY <1>1, <1>2
<1>30. AsByte(b) & 2 = 2 * b[1]
  BY <1>1, <1>2
<1>31. AsByte(b) & 4 = 4 * b[2]
  BY <1>1, <1>2
<1>32. AsByte(b) & 8 = 8 * b[3]
  BY <1>1, <1>2
<1> QED  BY <1>3, <1>4, <1>5, <1>6, <1>7, <1>8, <1>9, <1>10, <1>11, <1>12, <1>13, <1>14, <1>15, <1>16, <1>17, <1>18, <1>19, <1>20, <1>21, <1>22, <1>23, <1>24, <1>25, <1>26, <1>27, <1>28, <1>29, <1>30, <1>31, <1>32
-----------------------------------------------------------------------------
(* A field takes the bits from its shift on, and a mask of its low bits.   *)
Width(F) ==
  CASE F.low = 1  -> 1 [] F.low = 3  -> 2 [] F.low = 7  -> 3 [] F.low = 15  -> 4
    [] F.low = 31 -> 5 [] F.low = 63 -> 6 [] F.low = 255 -> 8
Has(F, i) == i \in F.shift .. F.shift + Width(F) - 1

Lifted(a, F) == [i \in 0..7 |-> IF Has(F, i + F.shift) THEN a[i + F.shift] ELSE 0]
Lowest(c, F) == [i \in 0..7 |-> IF Has(F, i + F.shift) THEN c[i] ELSE 0]
Merged(a, F, c) == [i \in 0..7 |-> IF Has(F, i) THEN c[i - F.shift] ELSE a[i]]

(* Masks and shift of a field agree, and what the setter and the getter    *)
(* make of a register are its bits in their places.                        *)
PutsItsBits(F) ==
  /\ F.shift \in 0..7 /\ Width(F) \in 1..8 /\ F.shift + Width(F) <= 8
  /\ \A a \in BitsOf : /\ Take(AsByte(a), F) = AsByte(Lifted(a, F))
                       /\ AsByte(a) & F.low = AsByte(Lowest(a, F))
  /\ \A a, c \in BitsOf : Put(AsByte(a), F, AsByte(c)) = AsByte(Merged(a, F, c))

LEMMA MasksAgree ==
  ASSUME NEW base, NEW F,
         \/ F = Field(base, 127, 1, 7, 128)
         \/ F = Field(base, 191, 1, 6, 64)
         \/ F = Field(base, 223, 1, 5, 32)
         \/ F = Field(base, 239, 1, 4, 16)
         \/ F = Field(base, 240, 15, 0, 15)
         \/ F = Field(base, 63, 3, 6, 192)
         \/ F = Field(base, 192, 63, 0, 63)
         \/ F = Field(base, 15, 15, 4, 240)
         \/ F = Field(base, 248, 7, 0, 7)
         \/ F = Field(base, 227, 7, 2, 28)
         \/ F = Field(base, 241, 7, 1, 14)
         \/ F = Field(base, 254, 1, 0, 1)
         \/ F = Field(base, 224, 31, 0, 31)
         \/ F = Field(base, 252, 3, 0, 3)
         \/ F = Field(base, 0, 255, 0, 255)
  PROVE  PutsItsBits(F)
<1> USE DEF Field, Weights
<1>1. ASSUME NEW a \in BitsOf, NEW i \in 0..7  PROVE a[i] \in 0..1
  BY DEF BitsOf
<1>2. CASE F = Field(base, 127, 1, 7, 128)
  <2>1. F.shift = 7 /\ Width(F) = 1 /\ F.low = 1 /\ F.keep = 127 /\ F.take = 128
    BY <1>2 DEF Width
  <2>2. ASSUME NEW a \in BitsOf
        PROVE  /\ AsByte(Lifted(a, F)) = a[7]
               /\ AsByte(Lowest(a, F)) = a[0]
    BY <2>1, <1>1 DEF Lifted, Lowest, AsByte, Has
  <2>3. ASSUME NEW a \in BitsOf, NEW c \in BitsOf
        PROVE  AsByte(Merged(a, F, c)) =
                   a[0] + 2 * a[1] + 4 * a[2] + 8 * a[3] + 16 * a[4] + 32 * a[5] + 64 * a[6]
                   + 128 * c[0]
    BY <2>1, <1>1 DEF Merged, AsByte, Has
  <2>4. ASSUME NEW a \in BitsOf
        PROVE  Take(AsByte(a), F) = AsByte(Lifted(a, F)) /\ AsByte(a) & F.low = AsByte(Lowest(a, F))
    BY <2>1, <2>2, <1>1, Masked DEF Take
  <2>5. ASSUME NEW a \in BitsOf, NEW c \in BitsOf
        PROVE  Put(AsByte(a), F, AsByte(c)) = AsByte(Merged(a, F, c))
    BY <2>1, <2>3, <1>1, Masked DEF Put, InPlace
  <2> QED  BY <2>1, <2>4, <2>5 DEF PutsItsBits
<1>3. CASE F = Field(base, 191, 1, 6, 64)
  <2>1. F.shift = 6 /\ Width(F) = 1 /\ F.low = 1 /\ F.keep = 191 /\ F.take = 64
    BY <1>3 DEF Width
  <2>2. ASSUME NEW a \in BitsOf
        PROVE  /\ AsByte(Lifted(a, F)) = a[6]
               /\ AsByte(Lowest(a, F)) = a[0]
    BY <2>1, <1>1 DEF Lifted, Lowest, AsByte, Has
  <2>3. ASSUME NEW a \in BitsOf, NEW c \in BitsOf
        PROVE  AsByte(Merged(a, F, c)) =
                   a[0] + 2 * a[1] + 4 * a[2] + 8 * a[3] + 16 * a[4] + 32 * a[5] + 128 * a[7]
                   + 64 * c[0]
    BY <2>1, <1>1 DEF Merged, AsByte, Has
  <2>4. ASSUME NEW a \in BitsOf
        PROVE  Take(AsByte(a), F) = AsByte(Lifted(a, F)) /\ AsByte(a) & F.low = AsByte(Lowest(a, F))
    BY <2>1, <2>2, <1>1, Masked DEF Take
  <2>5. ASSUME NEW a \in BitsOf, NEW c \in BitsOf
        PROVE  Put(AsByte(a), F, AsByte(c)) = AsByte(Merged(a, F, c))
    BY <2>1, <2>3, <1>1, Masked DEF Put, InPlace
  <2> QED  BY <2>1, <2>4, <2>5 DEF PutsItsBits
<1>4. CASE F = Field(base, 223, 1, 5, 32)
  <2>1. F.shift = 5 /\ Width(F) = 1 /\ F.low = 1 /\ F.keep = 223 /\ F.take = 32
    BY <1>4 DEF Width
  <2>2. ASSUME NEW a \in BitsOf
        PROVE  /\ AsByte(Lifted(a, F)) = a[5]
               /\ AsByte(Lowest(a, F)) = a[0]
    BY <2>1, <1>1 DEF Lifted, Lowest, AsByte, Has
  <2>3. ASSUME NEW a \in BitsOf, NEW c \in BitsOf
        PROVE  AsByte(Merged(a, F, c)) =
                   a[0] + 2 * a[1] + 4 * a[2] + 8 * a[3] + 16 * a[4] + 64 * a[6] + 128 * a[7]
                   + 32 * c[0]
    BY <2>1, <1>1 DEF Merged, AsByte, Has
  <2>4. ASSUME NEW a \in BitsOf
        PROVE  Take(AsByte(a), F) = AsByte(Lifted(a, F)) /\ AsByte(a) & F.low = AsByte(Lowest(a, F))
    BY <2>1, <2>2, <1>1, Masked DEF Take
  <2>5. ASSUME NEW a \in BitsOf, NEW c \in BitsOf
        PROVE  Put(AsByte(a), F, AsByte(c)) = AsByte(Merged(a, F, c))
    BY <2>1, <2>3, <1>1, Masked DEF Put, InPlace
  <2> QED  BY <2>1, <2>4, <2>5 DEF PutsItsBits
<1>5. CASE F = Field(base, 239, 1, 4, 16)
  <2>1. F.shift = 4 /\ Width(F) = 1 /\ F.low = 1 /\ F.keep = 239 /\ F.take = 16
    BY <1>5 DEF Width
  <2>2. ASSUME NEW a \in BitsOf
        PROVE  /\ AsByte(Lifted(a, F)) = a[4]
               /\ AsByte(Lowest(a, F)) = a[0]
    BY <2>1, <1>1 DEF Lifted, Lowest, AsByte, Has
  <2>3. ASSUME NEW a \in BitsOf, NEW c \in BitsOf
        PROVE  AsByte(Merged(a, F, c)) =
                   a[0] + 2 * a[1] + 4 * a[2] + 8 * a[3] + 32 * a[5] + 64 * a[6] + 128 * a[7]
                   + 16 * c[0]
    BY <2>1, <1>1 DEF Merged, AsByte, Has
  <2>4. ASSUME NEW a \in BitsOf
        PROVE  Take(AsByte(a), F) = AsByte(Lifted(a, F)) /\ AsByte(a) & F.low = AsByte(Lowest(a, F))
    BY <2>1, <2>2, <1>1, Masked DEF Take
  <2>5. ASSUME NEW a \in BitsOf, NEW c \in BitsOf
        PROVE  Put(AsByte(a), F, AsByte(c)) = AsByte(Merged(a, F, c))
    BY <2>1, <2>3, <1>1, Masked DEF Put, InPlace
  <2> QED  BY <2>1, <2>4, <2>5 DEF PutsItsBits
<1>6. CASE F = Field(base, 240, 15, 0, 15)
  <2>1. F.shift = 0 /\ Width(F) = 4 /\ F.low = 15 /\ F.keep = 240 /\ F.take = 15
    BY <1>6 DEF Width
  <2>2. ASSUME NEW a \in BitsOf
        PROVE  /\ AsByte(Lifted(a, F)) = a[0] + 2 * a[1] + 4 * a[2] + 8 * a[3]
               /\ AsByte(Lowest(a, F)) = a[0] + 2 * a[1] + 4 * a[2] + 8 * a[3]
    BY <2>1, <1>1 DEF Lifted, Lowest, AsByte, Has
  <2>3. ASSUME NEW a \in BitsOf, NEW c \in BitsOf
        PROVE  AsByte(Merged(a, F, c)) =
                   16 * a[4] + 32 * a[5] + 64 * a[6] + 128 * a[7]
                   + c[0] + 2 * c[1] + 4 * c[2] + 8 * c[3]
    BY <2>1, <1>1 DEF Merged, AsByte, Has
  <2>4. ASSUME NEW a \in BitsOf
        PROVE  Take(AsByte(a), F) = AsByte(Lifted(a, F)) /\ AsByte(a) & F.low = AsByte(Lowest(a, F))
    BY <2>1, <2>2, <1>1, Masked DEF Take
  <2>5. ASSUME NEW a \in BitsOf, NEW c \in BitsOf
        PROVE  Put(AsByte(a), F, AsByte(c)) = AsByte(Merged(a, F, c))
    BY <2>1, <2>3, <1>1, Masked DEF Put, InPlace
  <2> QED  BY <2>1, <2>4, <2>5 DEF PutsItsBits
<1>7. CASE F = Field(base, 63, 3, 6, 192)
  <2>1. F.shift = 6 /\ Width(F) = 2 /\ F.low = 3 /\ F.keep = 63 /\ F.take = 192
    BY <1>7 DEF Width
  <2>2. ASSUME NEW a \in BitsOf
        PROVE  /\ AsByte(Lifted(a, F)) = a[6] + 2 * a[7]
               /\ AsByte(Lowest(a, F)) = a[0] + 2 * a[1]
    BY <2>1, <1>1 DEF Lifted, Lowest, AsByte, Has
  <2>3. ASSUME NEW a \in BitsOf, NEW c \in BitsOf
        PROVE  AsByte(Merged(a, F, c)) =
                   a[0] + 2 * a[1] + 4 * a[2] + 8 * a[3] + 16 * a[4] + 32 * a[5]
                   + 64 * c[0] + 128 * c[1]
    BY <2>1, <1>1 DEF Merged, AsByte, Has
  <2>4. ASSUME NEW a \in BitsOf
        PROVE  Take(AsByte(a), F) = AsByte(Lifted(a, F)) /\ AsByte(a) & F.low = AsByte(Lowest(a, F))
    BY <2>1, <2>2, <1>1, Masked DEF Take
  <2>5. ASSUME NEW a \in BitsOf, NEW c \in BitsOf
        PROVE  Put(AsByte(a), F, AsByte(c)) = AsByte(Merged(a, F, c))
    BY <2>1, <2>3, <1>1, Masked DEF Put, InPlace
  <2> QED  BY <2>1, <2>4, <2>5 DEF PutsItsBits
<1>8. CASE F = Field(base, 192, 63, 0, 63)
  <2>1. F.shift = 0 /\ Width(F) = 6 /\ F.low = 63 /\ F.keep = 192 /\ F.take = 63
    BY <1>8 DEF Width
  <2>2. ASSUME NEW a \in BitsOf
        PROVE  /\ AsByte(Lifted(a, F)) = a[0] + 2 * a[1] + 4 * a[2] + 8 * a[3] + 16 * a[4] + 32 * a[5]
               /\ AsByte(Lowest(a, F)) = a[0] + 2 * a[1] + 4 * a[2] + 8 * a[3] + 16 * a[4] + 32 * a[5]
    BY <2>1, <1>1 DEF Lifted, Lowest, AsByte, Has
  <2>3. ASSUME NEW a \in BitsOf, NEW c \in BitsOf
        PROVE  AsByte(Merged(a, F, c)) =
                   64 * a[6] + 128 * a[7]
                   + c[0] + 2 * c[1] + 4 * c[2] + 8 * c[3] + 16 * c[4] + 32 * c[5]
    BY <2>1, <1>1 DEF Merged, AsByte, Has
  <2>4. ASSUME NEW a \in BitsOf
        PROVE  Take(AsByte(a), F) = AsByte(Lifted(a, F)) /\ AsByte(a) & F.low = AsByte(Lowest(a, F))
    BY <2>1, <2>2, <1>1, Masked DEF Take
  <2>5. ASSUME NEW a \in BitsOf, NEW c \in BitsOf
        PROVE  Put(AsByte(a), F, AsByte(c)) = AsByte(Merged(a, F, c))
    BY <2>1, <2>3, <1>1, Masked DEF Put, InPlace
  <2> QED  BY <2>1, <2>4, <2>5 DEF PutsItsBits
<1>9. CASE F = Field(base, 15, 15, 4, 240)
  <2>1. F.shift = 4 /\ Width(F) = 4 /\ F.low = 15 /\ F.keep = 15 /\ F.take = 240
    BY <1>9 DEF Width
  <2>2. ASSUME NEW a \in BitsOf
        PROVE  /\ AsByte(Lifted(a, F)) = a[4] + 2 * a[5] + 4 * a[6] + 8 * a[7]
               /\ AsByte(Lowest(a, F)) = a[0] + 2 * a[1] + 4 * a[2] + 8 * a[3]
    BY <2>1, <1>1 DEF Lifted, Lowest, AsByte, Has
  <2>3. ASSUME NEW a \in BitsOf, NEW c \in BitsOf
        PROVE  AsByte(Merged(a, F, c)) =
                   a[0] + 2 * a[1] + 4 * a[2] + 8 * a[3]
                   + 16 * c[0] + 32 * c[1] + 64 * c[2] + 128 * c[3]
    BY <2>1, <1>1 DEF Merged, AsByte, Has
  <2>4. ASSUME NEW a \in BitsOf
        PROVE  Take(AsByte(a), F) = AsByte(Lifted(a, F)) /\ AsByte(a) & F.low = AsByte(Lowest(a, F))
    BY <2>1, <2>2, <1>1, Masked DEF Take
  <2>5. ASSUME NEW a \in BitsOf, NEW c \in BitsOf
        PROVE  Put(AsByte(a), F, AsByte(c)) = AsByte(Merged(a, F, c))
    BY <2>1, <2>3, <1>1, Masked DEF Put, InPlace
  <2> QED  BY <2>1, <2>4, <2>5 DEF PutsItsBits
<1>10. CASE F = Field(base, 248, 7, 0, 7)
  <2>1. F.shift = 0 /\ Width(F) = 3 /\ F.low = 7 /\ F.keep = 248 /\ F.take = 7
    BY <1>10 DEF Width
  <2>2. ASSUME NEW a \in BitsOf
        PROVE  /\ AsByte(Lifted(a, F)) = a[0] + 2 * a[1] + 4 * a[2]
               /\ AsByte(Lowest(a, F)) = a[0] + 2 * a[1] + 4 * a[2]
    BY <2>1, <1>1 DEF Lifted, Lowest, AsByte, Has
  <2>3. ASSUME NEW a \in BitsOf, NEW c \in BitsOf
        PROVE  AsByte(Merged(a, F, c)) =
                   8 * a[3] + 16 * a[4] + 32 * a[5] + 64 * a[6] + 128 * a[7]
                   + c[0] + 2 * c[1] + 4 * c[2]
    BY <2>1, <1>1 DEF Merged, AsByte, Has
  <2>4. ASSUME NEW a \in BitsOf
        PROVE  Take(AsByte(a), F) = AsByte(Lifted(a, F)) /\ AsByte(a) & F.low = AsByte(Lowest(a, F))
    BY <2>1, <2>2, <1>1, Masked DEF Take
  <2>5. ASSUME NEW a \in BitsOf, NEW c \in BitsOf
        PROVE  Put(AsByte(a), F, AsByte(c)) = AsByte(Merged(a, F, c))
    BY <2>1, <2>3, <1>1, Masked DEF Put, InPlace
  <2> QED  BY <2>1, <2>4, <2>5 DEF PutsItsBits
<1>11. CASE F = Field(base, 227, 7, 2, 28)
  <2>1. F.shift = 2 /\ Width(F) = 3 /\ F.low = 7 /\ F.keep = 227 /\ F.take = 28
    BY <1>11 DEF Width
  <2>2. ASSUME NEW a \in BitsOf
        PROVE  /\ AsByte(Lifted(a, F)) = a[2] + 2 * a[3] + 4 * a[4]
               /\ AsByte(Lowest(a, F)) = a[0] + 2 * a[1] + 4 * a[2]
    BY <2>1, <1>1 DEF Lifted, Lowest, AsByte, Has
  <2>3. ASSUME NEW a \in BitsOf, NEW c \in BitsOf
        PROVE  AsByte(Merged(a, F, c)) =
                   a[0] + 2 * a[1] + 32 * a[5] + 64 * a[6] + 128 * a[7]
                   + 4 * c[0] + 8 * c[1] + 16 * c[2]
    BY <2>1, <1>1 DEF Merged, AsByte, Has
  <2>4. ASSUME NEW a \in BitsOf
        PROVE  Take(AsByte(a), F) = AsByte(Lifted(a, F)) /\ AsByte(a) & F.low = AsByte(Lowest(a, F))
    BY <2>1, <2>2, <1>1, Masked DEF Take
  <2>5. ASSUME NEW a \in BitsOf, NEW c \in BitsOf
        PROVE  Put(AsByte(a), F, AsByte(c)) = AsByte(Merged(a, F, c))
    BY <2>1, <2>3, <1>1, Masked DEF Put, InPlace
  <2> QED  BY <2>1, <2>4, <2>5 DEF PutsItsBits
<1>12. CASE F = Field(base, 241, 7, 1, 14)
  <2>1. F.shift = 1 /\ Width(F) = 3 /\ F.low = 7 /\ F.keep = 241 /\ F.take = 14
    BY <1>12 DEF Width
  <2>2. ASSUME NEW a \in BitsOf
        PROVE  /\ AsByte(Lifted(a, F)) = a[1] + 2 * a[2] + 4 * a[3]
               /\ AsByte(Lowest(a, F)) = a[0] + 2 * a[1] + 4 * a[2]
    BY <2>1, <1>1 DEF Lifted, Lowest, AsByte, Has
  <2>3. ASSUME NEW a \in BitsOf, NEW c \in BitsOf
        PROVE  AsByte(Merged(a, F, c)) =
                   a[0] + 16 * a[4] + 32 * a[5] + 64 * a[6] + 128 * a[7]
                   + 2 * c[0] + 4 * c[1] + 8 * c[2]
    BY <2>1, <1>1 DEF Merged, AsByte, Has
  <2>4. ASSUME NEW a \in BitsOf
        PROVE  Take(AsByte(a), F) = AsByte(Lifted(a, F)) /\ AsByte(a) & F.low = AsByte(Lowest(a, F))
    BY <2>1, <2>2, <1>1, Masked DEF Take
  <2>5. ASSUME NEW a \in BitsOf, NEW c \in BitsOf
        PROVE  Put(AsByte(a), F, AsByte(c)) = AsByte(Merged(a, F, c))
    BY <2>1, <2>3, <1>1, Masked DEF Put, InPlace
  <2> QED  BY <2>1, <2>4, <2>5 DEF PutsItsBits
<1>13. CASE F = Field(base, 254, 1, 0, 1)
  <2>1. F.shift = 0 /\ Width(F) = 1 /\ F.low = 1 /\ F.keep = 254 /\ F.take = 1
    BY <1>13 DEF Width
  <2>2. ASSUME NEW a \in BitsOf
        PROVE  /\ AsByte(Lifted(a, F)) = a[0]
               /\ AsByte(Lowest(a, F)) = a[0]
    BY <2>1, <1>1 DEF Lifted, Lowest, AsByte, Has
  <2>3. ASSUME NEW a \in BitsOf, NEW c \in BitsOf
        PROVE  AsByte(Merged(a, F, c)) =
                   2 * a[1] + 4 * a[2] + 8 * a[3] + 16 * a[4] + 32 * a[5] + 64 * a[6] + 128 * a[7]
                   + c[0]
    BY <2>1, <1>1 DEF Merged, AsByte, Has
  <2>4. ASSUME NEW a \in BitsOf
        PROVE  Take(AsByte(a), F) = AsByte(Lifted(a, F)) /\ AsByte(a) & F.low = AsByte(Lowest(a, F))
    BY <2>1, <2>2, <1>1, Masked DEF Take
  <2>5. ASSUME NEW a \in BitsOf, NEW c \in BitsOf
        PROVE  Put(AsByte(a), F, AsByte(c)) = AsByte(Merged(a, F, c))
    BY <2>1, <2>3, <1>1, Masked DEF Put, InPlace
  <2> QED  BY <2>1, <2>4, <2>5 DEF PutsItsBits
<1>14. CASE F = Field(base, 224, 31, 0, 31)
  <2>1. F.shift = 0 /\ Width(F) = 5 /\ F.low = 31 /\ F.keep = 224 /\ F.take = 31
    BY <1>14 DEF Width
  <2>2. ASSUME NEW a \in BitsOf
        PROVE  /\ AsByte(Lifted(a, F)) = a[0] + 2 * a[1] + 4 * a[2] + 8 * a[3] + 16 * a[4]
               /\ AsByte(Lowest(a, F)) = a[0] + 2 * a[1] + 4 * a[2] + 8 * a[3] + 16 * a[4]
    BY <2>1, <1>1 DEF Lifted, Lowest, AsByte, Has
  <2>3. ASSUME NEW a \in BitsOf, NEW c \in BitsOf
        PROVE  AsByte(Merged(a, F, c)) =
                   32 * a[5] + 64 * a[6] + 128 * a[7]
                   + c[0] + 2 * c[1] + 4 * c[2] + 8 * c[3] + 16 * c[4]
    BY <2>1, <1>1 DEF Merged, AsByte, Has
  <2>4. ASSUME NEW a \in BitsOf
        PROVE  Take(AsByte(a), F) = AsByte(Lifted(a, F)) /\ AsByte(a) & F.low = AsByte(Lowest(a, F))
    BY <2>1, <2>2, <1>1, Masked DEF Take
  <2>5. ASSUME NEW a \in BitsOf, NEW c \in BitsOf
        PROVE  Put(AsByte(a), F, AsByte(c)) = AsByte(Merged(a, F, c))
    BY <2>1, <2>3, <1>1, Masked DEF Put, InPlace
  <2> QED  BY <2>1, <2>4, <2>5 DEF PutsItsBits
<1>15. CASE F = Field(base, 252, 3, 0, 3)
  <2>1. F.shift = 0 /\ Width(F) = 2 /\ F.low = 3 /\ F.keep = 252 /\ F.take = 3
    BY <1>15 DEF Width
  <2>2. ASSUME NEW a \in BitsOf
        PROVE  /\ AsByte(Lifted(a, F)) = a[0] + 2 * a[1]
               /\ AsByte(Lowest(a, F)) = a[0] + 2 * a[1]
    BY <2>1, <1>1 DEF Lifted, Lowest, AsByte, Has
  <2>3. ASSUME NEW a \in BitsOf, NEW c \in BitsOf
        PROVE  AsByte(Merged(a, F, c)) =
                   4 * a[2] + 8 * a[3] + 16 * a[4] + 32 * a[5] + 64 * a[6] + 128 * a[7]
                   + c[0] + 2 * c[1]
    BY <2>1, <1>1 DEF Merged, AsByte, Has
  <2>4. ASSUME NEW a \in BitsOf
        PROVE  Take(AsByte(a), F) = AsByte(Lifted(a, F)) /\ AsByte(a) & F.low = AsByte(Lowest(a, F))
    BY <2>1, <2>2, <1>1, Masked DEF Take
  <2>5. ASSUME NEW a \in BitsOf, NEW c \in BitsOf
        PROVE  Put(AsByte(a), F, AsByte(c)) = AsByte(Merged(a, F, c))
    BY <2>1, <2>3, <1>1, Masked DEF Put, InPlace
  <2> QED  BY <2>1, <2>4, <2>5 DEF PutsItsBits
<1>16. CASE F = Field(base, 0, 255, 0, 255)
  <2>1. F.shift = 0 /\ Width(F) = 8 /\ F.low = 255 /\ F.keep = 0 /\ F.take = 255
    BY <1>16 DEF Width
  <2>2. ASSUME NEW a \in BitsOf
        PROVE  /\ AsByte(Lifted(a, F)) = a[0] + 2 * a[1] + 4 * a[2] + 8 * a[3] + 16 * a[4] + 32 * a[5] + 64 * a[6] + 128 * a[7]
               /\ AsByte(Lowest(a, F)) = a[0] + 2 * a[1] + 4 * a[2] + 8 * a[3] + 16 * a[4] + 32 * a[5] + 64 * a[6] + 128 * a[7]
    BY <2>1, <1>1 DEF Lifted, Lowest, AsByte, Has
  <2>3. ASSUME NEW a \in BitsOf, NEW c \in BitsOf
        PROVE  AsByte(Merged(a, F, c)) =
                   c[0] + 2 * c[1] + 4 * c[2] + 8 * c[3] + 16 * c[4] + 32 * c[5] + 64 * c[6] + 128 * c[7]
    BY <2>1, <1>1 DEF Merged, AsByte, Has
  <2>4. ASSUME NEW a \in BitsOf
        PROVE  Take(AsByte(a), F) = AsByte(Lifted(a, F)) /\ AsByte(a) & F.low = AsByte(Lowest(a, F))
    BY <2>1, <2>2, <1>1, Masked DEF Take
  <2>5. ASSUME NEW a \in BitsOf, NEW c \in BitsOf
        PROVE  Put(AsByte(a), F, AsByte(c)) = AsByte(Merged(a, F, c))
    BY <2>1, <2>3, <1>1, Masked, SMTT(30) DEF Put, InPlace
  <2> QED  BY <2>1, <2>4, <2>5 DEF PutsItsBits
<1> QED  BY <1>2, <1>3, <1>4, <1>5, <1>6, <1>7, <1>8, <1>9, <1>10, <1>11, <1>12, <1>13, <1>14, <1>15, <1>16

LEMMA MergedIs ==
  ASSUME NEW F, PutsItsBits(F), NEW a \in BitsOf, NEW c \in BitsOf
  PROVE  /\ Merged(a, F, c) \in BitsOf /\ Lowest(c, F) \in BitsOf /\ Lifted(a, F) \in BitsOf
         /\ Lifted(Merged(a, F, c), F) = Lowest(c, F)
         /\ \A G : PutsItsBits(G) /\ (\A i \in 0..7 : ~(Has(F, i) /\ Has(G, i))) =>
                     Lifted(Merged(a, F, c), G) = Lifted(a, G)
<1>1. F.shift \in 0..7 /\ Width(F) \in 1..8 /\ F.shift + Width(F) <= 8
  BY DEF PutsItsBits
<1>2. \A i \in 0..7 : a[i] \in 0..1 /\ c[i] \in 0..1
  BY DEF BitsOf
<1>3. ASSUME NEW i \in 0..7, Has(F, i)  PROVE i - F.shift \in 0..7
  BY <1>1, <1>3 DEF Has
<1>4. ASSUME NEW G, PutsItsBits(G), NEW i \in 0..7, Has(G, i + G.shift)  PROVE i + G.shift \in 0..7
  BY <1>4 DEF Has, PutsItsBits
<1>5. Merged(a, F, c) \in BitsOf
  BY <1>2, <1>3 DEF Merged, BitsOf
<1>6. Lowest(c, F) \in BitsOf
  BY <1>2 DEF Lowest, BitsOf
<1>7. Lifted(a, F) \in BitsOf
  BY <1>2, <1>4 DEF Lifted, BitsOf
<1>8. Lifted(Merged(a, F, c), F) = Lowest(c, F)
  BY <1>1, <1>4 DEF Lifted, Merged, Lowest
<1>9. ASSUME NEW G, PutsItsBits(G), \A i \in 0..7 : ~(Has(F, i) /\ Has(G, i))
      PROVE  Lifted(Merged(a, F, c), G) = Lifted(a, G)
  BY <1>4, <1>9 DEF Lifted, Merged
<1> QED  BY <1>5, <1>6, <1>7, <1>8, <1>9

(* A field that was set is read back, and the others of its register are   *)
(* as they were.                                                           *)
LEMMA PutAndTake ==
  ASSUME NEW F, PutsItsBits(F), NEW x \in Byte, NEW v \in Byte
  PROVE  /\ Put(x, F, v) \in Byte /\ Take(x, F) \in Byte /\ v & F.low \in Byte
         /\ Take(Put(x, F, v), F) = v & F.low
         /\ \A G : PutsItsBits(G) /\ (\A i \in 0..7 : ~(Has(F, i) /\ Has(G, i))) =>
                     Take(Put(x, F, v), G) = Take(x, G)
<1>1. PICK a \in BitsOf : x = AsByte(a)
  BY HasBits
<1>2. PICK c \in BitsOf : v = AsByte(c)
  BY HasBits
<1>3. /\ Put(x, F, v) = AsByte(Merged(a, F, c))
      /\ v & F.low = AsByte(Lowest(c, F))
      /\ \A b \in BitsOf : Take(AsByte(b), F) = AsByte(Lifted(b, F))
  BY <1>1, <1>2 DEF PutsItsBits
<1>4. ASSUME NEW G, PutsItsBits(G), \A i \in 0..7 : ~(Has(F, i) /\ Has(G, i))
      PROVE  Take(Put(x, F, v), G) = Take(x, G)
  <2>1. Merged(a, F, c) \in BitsOf /\ Lifted(Merged(a, F, c), G) = Lifted(a, G)
    BY <1>4, MergedIs
  <2>2. \A b \in BitsOf : Take(AsByte(b), G) = AsByte(Lifted(b, G))
    BY <1>4 DEF PutsItsBits
  <2> QED  BY <1>1, <1>3, <2>1, <2>2
<1> QED  BY <1>1, <1>3, <1>4, MergedIs, BitAt

(* The tables of OPL2.c, and the two parts of an F-number.                 *)
High == Field(176, 252, 3, 0, 3)
Low  == Field(160, 0, 255, 0, 255)

LEMMA TablesFit ==
  /\ \A f \in DOMAIN Fields20 : PutsItsBits(Fields20[f]) /\ Fields20[f].base = 32
  /\ \A f \in DOMAIN Fields40 : PutsItsBits(Fields40[f]) /\ Fields40[f].base = 64
  /\ \A f \in DOMAIN Fields60and80 : PutsItsBits(Fields60and80[f]) /\ Fields60and80[f].base \in {96, 128}
  /\ \A f \in DOMAIN FieldsE0 : PutsItsBits(FieldsE0[f]) /\ FieldsE0[f].base = 224
  /\ \A f \in DOMAIN FieldsBC : PutsItsBits(FieldsBC[f]) /\ FieldsBC[f].base \in {176, 192}
  /\ \A f \in DOMAIN ChipFields \ {"NoteSelect"} : PutsItsBits(ChipFields[f]) /\ ChipFields[f].base \in {1, 189}
  /\ PutsItsBits(High) /\ PutsItsBits(Low)
<1>1. \A f \in DOMAIN Fields20 : PutsItsBits(Fields20[f]) /\ Fields20[f].base = 32
  BY MasksAgree DEF Fields20, Field
<1>2. \A f \in DOMAIN Fields40 : PutsItsBits(Fields40[f]) /\ Fields40[f].base = 64
  BY MasksAgree DEF Fields40, Field
<1>3. \A f \in DOMAIN Fields60and80 : PutsItsBits(Fields60and80[f]) /\ Fields60and80[f].base \in {96, 128}
  BY MasksAgree DEF Fields60and80, Field
<1>4. \A f \in DOMAIN FieldsE0 : PutsItsBits(FieldsE0[f]) /\ FieldsE0[f].base = 224
  BY MasksAgree DEF FieldsE0, Field
<1>5. \A f \in DOMAIN FieldsBC : PutsItsBits(FieldsBC[f]) /\ FieldsBC[f].base \in {176, 192}
  BY MasksAgree DEF FieldsBC, Field
<1>6. \A f \in DOMAIN ChipFields \ {"NoteSelect"} : PutsItsBits(ChipFields[f]) /\ ChipFields[f].base \in {1, 189}
  BY MasksAgree DEF ChipFields, Field
<1>7. PutsItsBits(High) /\ PutsItsBits(Low)
  BY MasksAgree DEF High, Low
<1> QED  BY <1>1, <1>2, <1>3, <1>4, <1>5, <1>6, <1>7

LEMMA OperatorTablesFit ==
  \A f \in OperatorFieldNames : PutsItsBits(OperatorFields(f)) /\ OperatorFields(f).base \in {32, 64, 96, 128, 224}
<1>1. ASSUME NEW f \in OperatorFieldNames
      PROVE  \/ f \in DOMAIN Fields20 /\ OperatorFields(f) = Fields20[f]
             \/ f \in DOMAIN Fields40 /\ OperatorFields(f) = Fields40[f]
             \/ f \in DOMAIN Fields60and80 /\ OperatorFields(f) = Fields60and80[f]
             \/ f \in DOMAIN FieldsE0 /\ OperatorFields(f) = FieldsE0[f]
  BY DEF OperatorFieldNames, OperatorFields, Fields20, Fields40, Fields60and80, FieldsE0
<1> QED  BY <1>1, TablesFit
-----------------------------------------------------------------------------
(* The registers of the chip: no two have the same address, and no two     *)
(* have the same shadow.                                                   *)
OperatorBases == {32, 64, 96, 128, 224}
ChannelBases == {160, 176, 192}
ChipAddresses == {1, 8, 189}
Channels == 0..8

Address(base, ch, op) == base + getRegisterOffset(ch, op)

LEMMA Offsets ==
  ASSUME NEW ch \in Channels, NEW op \in Operators
  PROVE  /\ getRegisterOffset(ch, op) = 8 * (ch \div 3) + (ch % 3) + 3 * op
         /\ getRegisterOffset(ch, op) \in 0..21
<1> USE DEF getRegisterOffset, registerOffsets, Operators, OPERATOR1, OPERATOR2, Channels
<1>1. CASE op = 0
  <2>1. getRegisterOffset(ch, op) = <<0, 1, 2, 8, 9, 10, 16, 17, 18>>[ch + 1]
    BY <1>1
  <2> QED  BY <1>1, <2>1
<1>2. CASE op = 1
  <2>1. getRegisterOffset(ch, op) = <<3, 4, 5, 11, 12, 13, 19, 20, 21>>[ch + 1]
    BY <1>2
  <2> QED  BY <1>2, <2>1
<1> QED  BY <1>1, <1>2

LEMMA AddressesDiffer ==
  /\ \A b, b2 \in OperatorBases, c, c2 \in Channels, o, o2 \in Operators :
       Address(b, c, o) = Address(b2, c2, o2) => b = b2 /\ c = c2 /\ o = o2
  /\ \A b, b2 \in ChannelBases, c, c2 \in Channels : b + c = b2 + c2 => b = b2 /\ c = c2
  /\ \A b \in OperatorBases, c \in Channels, o \in Operators :
       /\ Address(b, c, o) \in Addresses \ ChipAddresses
       /\ \A b2 \in ChannelBases, c2 \in Channels : Address(b, c, o) # b2 + c2
  /\ \A b \in ChannelBases, c \in Channels : b + c \in Addresses \ ChipAddresses
  /\ ChipAddresses \subseteq Addresses
<1>1. ASSUME NEW b \in OperatorBases, NEW b2 \in OperatorBases, NEW c \in Channels,
             NEW c2 \in Channels, NEW o \in Operators, NEW o2 \in Operators,
             Address(b, c, o) = Address(b2, c2, o2)
      PROVE  b = b2 /\ c = c2 /\ o = o2
  <2>1. b = b2 /\ getRegisterOffset(c, o) = getRegisterOffset(c2, o2)
    BY <1>1, Offsets DEF Address, OperatorBases
  <2> QED  BY <2>1, Offsets DEF Channels, Operators, OPERATOR1, OPERATOR2
<1>2. \A b, b2 \in ChannelBases, c, c2 \in Channels : b + c = b2 + c2 => b = b2 /\ c = c2
  BY DEF ChannelBases, Channels
<1>3. ASSUME NEW b \in OperatorBases, NEW c \in Channels, NEW o \in Operators
      PROVE  /\ Address(b, c, o) \in Addresses /\ Address(b, c, o) \notin ChipAddresses
             /\ \A b2 \in ChannelBases, c2 \in Channels : Address(b, c, o) # b2 + c2
  <2>1. Address(b, c, o) \in Addresses
    BY DEF Address, Addresses, OperatorBases, Channels
  <2>2. getRegisterOffset(c, o) \in 0..21
    BY Offsets
  <2> QED  BY <2>1, <2>2 DEF Address, OperatorBases, ChipAddresses, ChannelBases, Channels
<1>4. \A b \in ChannelBases, c \in Channels : b + c \in Addresses /\ b + c \notin ChipAddresses
  BY DEF Addresses, ChannelBases, ChipAddresses, Channels
<1>5. ChipAddresses \subseteq Addresses
  BY DEF Addresses, ChipAddresses
<1> QED  BY <1>1, <1>2, <1>3, <1>4, <1>5

LEMMA ShadowsDiffer ==
  /\ \A b \in OperatorBases, c \in Channels, o \in Operators : getOperatorRegisterOffset(b, c, o) \in 0..89
  /\ \A b, b2 \in OperatorBases, c, c2 \in Channels, o, o2 \in Operators :
       getOperatorRegisterOffset(b, c, o) = getOperatorRegisterOffset(b2, c2, o2)
         => b = b2 /\ c = c2 /\ o = o2
  /\ \A b \in ChannelBases, c \in Channels : getChannelRegisterOffset(b, c) \in 0..26
  /\ \A b, b2 \in ChannelBases, c, c2 \in Channels :
       getChannelRegisterOffset(b, c) = getChannelRegisterOffset(b2, c2) => b = b2 /\ c = c2
  /\ \A b \in ChipAddresses : getChipRegisterOffset(b) \in 0..2
  /\ \A b, b2 \in ChipAddresses : getChipRegisterOffset(b) = getChipRegisterOffset(b2) => b = b2
<1> DEFINE k(b) == CASE b = 64  -> 1 [] b = 96  -> 2 [] b = 128 -> 3 [] b = 224 -> 4 [] OTHER -> 0
<1>1. ASSUME NEW b \in OperatorBases, NEW c \in Channels, NEW o \in Operators
      PROVE  getOperatorRegisterOffset(b, c, o) = c * 10 + o * 5 + k(b)
  <2>1. c % 9 = c /\ o % 2 = o
    BY DEF Channels, Operators, OPERATOR1, OPERATOR2
  <2> QED  BY <2>1 DEF getOperatorRegisterOffset, OPL2_NUM_CHANNELS
<1>2. \A b \in OperatorBases : k(b) \in 0..4
  BY DEF OperatorBases
<1>3. \A b, b2 \in OperatorBases : k(b) = k(b2) => b = b2
  BY DEF OperatorBases
<1> HIDE DEF k
<1>4. \A b \in OperatorBases, c \in Channels, o \in Operators : getOperatorRegisterOffset(b, c, o) \in 0..89
  BY <1>1, <1>2 DEF Channels, Operators, OPERATOR1, OPERATOR2
<1>5. ASSUME NEW b \in OperatorBases, NEW b2 \in OperatorBases, NEW c \in Channels,
             NEW c2 \in Channels, NEW o \in Operators, NEW o2 \in Operators,
             getOperatorRegisterOffset(b, c, o) = getOperatorRegisterOffset(b2, c2, o2)
      PROVE  b = b2 /\ c = c2 /\ o = o2
  <2>1. c * 10 + o * 5 + k(b) = c2 * 10 + o2 * 5 + k(b2)
    BY <1>1, <1>5
  <2>2. c = c2 /\ o = o2 /\ k(b) = k(b2)
    BY <1>2, <2>1 DEF Channels, Operators, OPERATOR1, OPERATOR2
  <2> QED  BY <2>2, <1>3
<1>6. \A b \in ChannelBases, c \in Channels :
        getChannelRegisterOffset(b, c) = c * 3 + (CASE b = 176 -> 1 [] b = 192 -> 2 [] OTHER -> 0)
  <2>1. \A c \in Channels : c % 9 = c
    BY DEF Channels
  <2> QED  BY <2>1 DEF getChannelRegisterOffset, OPL2_NUM_CHANNELS
<1>7. /\ \A b \in ChannelBases, c \in Channels : getChannelRegisterOffset(b, c) \in 0..26
      /\ \A b, b2 \in ChannelBases, c, c2 \in Channels :
           getChannelRegisterOffset(b, c) = getChannelRegisterOffset(b2, c2) => b = b2 /\ c = c2
  <2>1. ASSUME NEW c \in Channels
        PROVE  /\ getChannelRegisterOffset(160, c) = c * 3
               /\ getChannelRegisterOffset(176, c) = c * 3 + 1
               /\ getChannelRegisterOffset(192, c) = c * 3 + 2
    BY <1>6 DEF ChannelBases, Channels
  <2> QED  BY <2>1 DEF Channels, ChannelBases
<1>8. /\ \A b \in ChipAddresses : getChipRegisterOffset(b) \in 0..2
      /\ \A b, b2 \in ChipAddresses : getChipRegisterOffset(b) = getChipRegisterOffset(b2) => b = b2
  <2>1. getChipRegisterOffset(1) = 0 /\ getChipRegisterOffset(8) = 1 /\ getChipRegisterOffset(189) = 2
    BY DEF getChipRegisterOffset
  <2> QED  BY <2>1 DEF ChipAddresses
<1> QED  BY <1>4, <1>5, <1>7, <1>8

(* A driver whose shadows are the chip.                                    *)
Drivers ==
  [chipRegisters : [0..2 -> Byte], channelRegisters : [0..26 -> Byte],
   operatorRegisters : [0..89 -> Byte], chip : [Addresses -> Byte], bus : Seq(Nat \X Byte)]

Good(r) ==
  /\ r \in Drivers
  /\ \A b \in ChipAddresses : getChipRegister(r, b) = r.chip[b]
  /\ \A b \in ChannelBases, c \in Channels : getChannelRegister(r, b, c) = r.chip[b + c]
  /\ \A b \in OperatorBases, c \in Channels, o \in Operators :
       getOperatorRegister(r, b, c, o) = r.chip[Address(b, c, o)]

(* What a write of one register changes.                                   *)
Wrote(r, s, a, v) ==
  Good(s) /\ s.chip = [r.chip EXCEPT ![a] = v] /\ s.bus = Append(r.bus, <<a, v>>)

(* What a write makes of the record.                                       *)
LEMMA WriteIs ==
  ASSUME NEW r \in Drivers, NEW a \in Addresses, a \in Nat, NEW v \in Byte,
         NEW s, s = YM3812_Write(r, a, v)
  PROVE  /\ s.chipRegisters = r.chipRegisters /\ s.channelRegisters = r.channelRegisters
         /\ s.operatorRegisters = r.operatorRegisters
         /\ s.chip = [r.chip EXCEPT ![a] = v] /\ s.bus = Append(r.bus, <<a, v>>)
         /\ s \in Drivers
<1>1. /\ r.bus \in Seq(Nat \X Byte) /\ <<a, v>> \in Nat \X Byte /\ r.chip \in [Addresses -> Byte]
  BY DEF Drivers
<1>2. Append(r.bus, <<a, v>>) \in Seq(Nat \X Byte) /\ [r.chip EXCEPT ![a] = v] \in [Addresses -> Byte]
  BY <1>1
<1> QED  BY <1>2 DEF YM3812_Write, Drivers

LEMMA SetOperatorRegister ==
  ASSUME NEW r, Good(r), NEW b \in OperatorBases, NEW c \in Channels, NEW o \in Operators,
         NEW v \in Byte
  PROVE  Wrote(r, setOperatorRegister(r, b, c, o, v), Address(b, c, o), v)
<1> DEFINE i == getOperatorRegisterOffset(b, c, o)
           a == Address(b, c, o)
           q == [r EXCEPT !.operatorRegisters[i] = v]
           s == setOperatorRegister(r, b, c, o, v)
<1>1. i \in 0..89 /\ a \in Addresses /\ a \in Nat
  BY ShadowsDiffer, AddressesDiffer, Offsets DEF Address, OperatorBases
<1>2. /\ r \in Drivers /\ r.operatorRegisters \in [0..89 -> Byte] /\ r.chip \in [Addresses -> Byte]
      /\ [r.operatorRegisters EXCEPT ![i] = v] \in [0..89 -> Byte]
  BY <1>1 DEF Good, Drivers
<1>3. /\ q \in Drivers /\ q.operatorRegisters = [r.operatorRegisters EXCEPT ![i] = v] /\ q.chip = r.chip /\ q.bus = r.bus
      /\ q.channelRegisters = r.channelRegisters /\ q.chipRegisters = r.chipRegisters
  BY <1>2 DEF Drivers
<1>4. s = YM3812_Write(q, a, v)
  BY <1>1 DEF setOperatorRegister, Address
<1> HIDE DEF i, a, q, s
<1>5. /\ s.operatorRegisters = [r.operatorRegisters EXCEPT ![i] = v]
      /\ s.chip = [r.chip EXCEPT ![a] = v] /\ s.bus = Append(r.bus, <<a, v>>)
      /\ s.channelRegisters = r.channelRegisters /\ s.chipRegisters = r.chipRegisters
      /\ s \in Drivers
  <2>1. q \in Drivers /\ a \in Addresses /\ a \in Nat /\ s = YM3812_Write(q, a, v)
    BY <1>1, <1>3, <1>4
  <2>2. /\ s.chipRegisters = q.chipRegisters /\ s.channelRegisters = q.channelRegisters
        /\ s.operatorRegisters = q.operatorRegisters
        /\ s.chip = [q.chip EXCEPT ![a] = v] /\ s.bus = Append(q.bus, <<a, v>>)
        /\ s \in Drivers
    BY <2>1, WriteIs
  <2> QED  BY <1>3, <2>2
<1>6. ASSUME NEW b2 \in ChipAddresses
      PROVE  getChipRegister(s, b2) = s.chip[b2]
  <2>1. getChipRegister(r, b2) = r.chip[b2] /\ b2 \in Addresses
    BY AddressesDiffer DEF Good
  <2>2. b2 # a
    BY AddressesDiffer DEF a
  <2> QED  BY <1>1, <1>2, <1>5, <2>1, <2>2 DEF getChipRegister
<1>7. ASSUME NEW b2 \in ChannelBases, NEW c2 \in Channels
      PROVE  getChannelRegister(s, b2, c2) = s.chip[b2 + c2]
  <2>1. getChannelRegister(r, b2, c2) = r.chip[b2 + c2] /\ b2 + c2 \in Addresses
    BY AddressesDiffer DEF Good
  <2>2. b2 + c2 # a
    BY AddressesDiffer DEF a
  <2> QED  BY <1>1, <1>2, <1>5, <2>1, <2>2 DEF getChannelRegister
<1>8. ASSUME NEW b2 \in OperatorBases, NEW c2 \in Channels, NEW o2 \in Operators
      PROVE  getOperatorRegister(s, b2, c2, o2) = s.chip[Address(b2, c2, o2)]
  <2>1. getOperatorRegister(r, b2, c2, o2) = r.chip[Address(b2, c2, o2)] /\ Address(b2, c2, o2) \in Addresses
    BY AddressesDiffer DEF Good
  <2>2. getOperatorRegisterOffset(b2, c2, o2) \in 0..89 /\ (getOperatorRegisterOffset(b2, c2, o2) = i <=> Address(b2, c2, o2) = a)
    BY ShadowsDiffer, AddressesDiffer DEF i, a
  <2> QED  BY <1>1, <1>2, <1>5, <2>1, <2>2 DEF getOperatorRegister
<1> QED  BY <1>5, <1>6, <1>7, <1>8 DEF Wrote, Good, a, s

LEMMA SetChannelRegister ==
  ASSUME NEW r, Good(r), NEW b \in ChannelBases, NEW c \in Channels, NEW v \in Byte
  PROVE  Wrote(r, setChannelRegister(r, b, c, v), b + c, v)
<1> DEFINE i == getChannelRegisterOffset(b, c)
           a == b + c
           q == [r EXCEPT !.channelRegisters[i] = v]
           s == setChannelRegister(r, b, c, v)
<1>1. i \in 0..26 /\ a \in Addresses /\ a \in Nat
  BY ShadowsDiffer, AddressesDiffer DEF ChannelBases, Channels
<1>2. /\ r \in Drivers /\ r.channelRegisters \in [0..26 -> Byte] /\ r.chip \in [Addresses -> Byte]
      /\ [r.channelRegisters EXCEPT ![i] = v] \in [0..26 -> Byte]
  BY <1>1 DEF Good, Drivers
<1>3. /\ q \in Drivers /\ q.channelRegisters = [r.channelRegisters EXCEPT ![i] = v] /\ q.chip = r.chip /\ q.bus = r.bus
      /\ q.operatorRegisters = r.operatorRegisters /\ q.chipRegisters = r.chipRegisters
  BY <1>2 DEF Drivers
<1>4. s = YM3812_Write(q, a, v)
  <2>1. c % 9 = c
    BY DEF Channels
  <2> QED  BY <2>1 DEF setChannelRegister
<1> HIDE DEF i, a, q, s
<1>5. /\ s.channelRegisters = [r.channelRegisters EXCEPT ![i] = v]
      /\ s.chip = [r.chip EXCEPT ![a] = v] /\ s.bus = Append(r.bus, <<a, v>>)
      /\ s.operatorRegisters = r.operatorRegisters /\ s.chipRegisters = r.chipRegisters
      /\ s \in Drivers
  <2>1. q \in Drivers /\ a \in Addresses /\ a \in Nat /\ s = YM3812_Write(q, a, v)
    BY <1>1, <1>3, <1>4
  <2>2. /\ s.chipRegisters = q.chipRegisters /\ s.channelRegisters = q.channelRegisters
        /\ s.operatorRegisters = q.operatorRegisters
        /\ s.chip = [q.chip EXCEPT ![a] = v] /\ s.bus = Append(q.bus, <<a, v>>)
        /\ s \in Drivers
    BY <2>1, WriteIs
  <2> QED  BY <1>3, <2>2
<1>6. ASSUME NEW b2 \in ChipAddresses
      PROVE  getChipRegister(s, b2) = s.chip[b2]
  <2>1. getChipRegister(r, b2) = r.chip[b2] /\ b2 \in Addresses
    BY AddressesDiffer DEF Good
  <2>2. b2 # a
    BY AddressesDiffer DEF a
  <2> QED  BY <1>1, <1>2, <1>5, <2>1, <2>2 DEF getChipRegister
<1>7. ASSUME NEW b2 \in ChannelBases, NEW c2 \in Channels
      PROVE  getChannelRegister(s, b2, c2) = s.chip[b2 + c2]
  <2>1. getChannelRegister(r, b2, c2) = r.chip[b2 + c2] /\ b2 + c2 \in Addresses
    BY AddressesDiffer DEF Good
  <2>2. getChannelRegisterOffset(b2, c2) \in 0..26 /\ (getChannelRegisterOffset(b2, c2) = i <=> b2 + c2 = a)
    BY ShadowsDiffer, AddressesDiffer DEF i, a
  <2> QED  BY <1>1, <1>2, <1>5, <2>1, <2>2 DEF getChannelRegister
<1>8. ASSUME NEW b2 \in OperatorBases, NEW c2 \in Channels, NEW o2 \in Operators
      PROVE  getOperatorRegister(s, b2, c2, o2) = s.chip[Address(b2, c2, o2)]
  <2>1. getOperatorRegister(r, b2, c2, o2) = r.chip[Address(b2, c2, o2)] /\ Address(b2, c2, o2) \in Addresses
    BY AddressesDiffer DEF Good
  <2>2. Address(b2, c2, o2) # a
    BY AddressesDiffer DEF a
  <2> QED  BY <1>1, <1>2, <1>5, <2>1, <2>2 DEF getOperatorRegister
<1> QED  BY <1>5, <1>6, <1>7, <1>8 DEF Wrote, Good, a, s

LEMMA SetChipRegister ==
  ASSUME NEW r, Good(r), NEW b \in ChipAddresses, NEW v \in Byte
  PROVE  Wrote(r, setChipRegister(r, b, v), b, v)
<1> DEFINE i == getChipRegisterOffset(b)
           a == b
           q == [r EXCEPT !.chipRegisters[i] = v]
           s == setChipRegister(r, b, v)
<1>1. i \in 0..2 /\ a \in Addresses /\ a \in Nat
  BY ShadowsDiffer, AddressesDiffer DEF ChipAddresses
<1>2. /\ r \in Drivers /\ r.chipRegisters \in [0..2 -> Byte] /\ r.chip \in [Addresses -> Byte]
      /\ [r.chipRegisters EXCEPT ![i] = v] \in [0..2 -> Byte]
  BY <1>1 DEF Good, Drivers
<1>3. /\ q \in Drivers /\ q.chipRegisters = [r.chipRegisters EXCEPT ![i] = v] /\ q.chip = r.chip /\ q.bus = r.bus
      /\ q.operatorRegisters = r.operatorRegisters /\ q.channelRegisters = r.channelRegisters
  BY <1>2 DEF Drivers
<1>4. s = YM3812_Write(q, a, v)
  BY <1>1 DEF setChipRegister
<1> HIDE DEF i, a, q, s
<1>5. /\ s.chipRegisters = [r.chipRegisters EXCEPT ![i] = v]
      /\ s.chip = [r.chip EXCEPT ![a] = v] /\ s.bus = Append(r.bus, <<a, v>>)
      /\ s.operatorRegisters = r.operatorRegisters /\ s.channelRegisters = r.channelRegisters
      /\ s \in Drivers
  <2>1. q \in Drivers /\ a \in Addresses /\ a \in Nat /\ s = YM3812_Write(q, a, v)
    BY <1>1, <1>3, <1>4
  <2>2. /\ s.chipRegisters = q.chipRegisters /\ s.channelRegisters = q.channelRegisters
        /\ s.operatorRegisters = q.operatorRegisters
        /\ s.chip = [q.chip EXCEPT ![a] = v] /\ s.bus = Append(q.bus, <<a, v>>)
        /\ s \in Drivers
    BY <2>1, WriteIs
  <2> QED  BY <1>3, <2>2
<1>6. ASSUME NEW b2 \in ChipAddresses
      PROVE  getChipRegister(s, b2) = s.chip[b2]
  <2>1. getChipRegister(r, b2) = r.chip[b2] /\ b2 \in Addresses
    BY AddressesDiffer DEF Good
  <2>2. getChipRegisterOffset(b2) \in 0..2 /\ (getChipRegisterOffset(b2) = i <=> b2 = a)
    BY ShadowsDiffer, AddressesDiffer DEF i, a
  <2> QED  BY <1>1, <1>2, <1>5, <2>1, <2>2 DEF getChipRegister
<1>7. ASSUME NEW b2 \in ChannelBases, NEW c2 \in Channels
      PROVE  getChannelRegister(s, b2, c2) = s.chip[b2 + c2]
  <2>1. getChannelRegister(r, b2, c2) = r.chip[b2 + c2] /\ b2 + c2 \in Addresses
    BY AddressesDiffer DEF Good
  <2>2. b2 + c2 # a
    BY AddressesDiffer DEF a
  <2> QED  BY <1>1, <1>2, <1>5, <2>1, <2>2 DEF getChannelRegister
<1>8. ASSUME NEW b2 \in OperatorBases, NEW c2 \in Channels, NEW o2 \in Operators
      PROVE  getOperatorRegister(s, b2, c2, o2) = s.chip[Address(b2, c2, o2)]
  <2>1. getOperatorRegister(r, b2, c2, o2) = r.chip[Address(b2, c2, o2)] /\ Address(b2, c2, o2) \in Addresses
    BY AddressesDiffer DEF Good
  <2>2. Address(b2, c2, o2) # a
    BY AddressesDiffer DEF a
  <2> QED  BY <1>1, <1>2, <1>5, <2>1, <2>2 DEF getOperatorRegister
<1> QED  BY <1>5, <1>6, <1>7, <1>8 DEF Wrote, Good, a, s
-----------------------------------------------------------------------------
(* The fields, by what is asked for; an F-number is two of them.           *)
ChannelNames == DOMAIN FieldsBC \cup {"High", "Low"}
Ids ==
  {<<f, c, o>> : f \in OperatorFieldNames, c \in Channels, o \in Operators}
    \cup {<<f, c>> : f \in ChannelNames, c \in Channels}
    \cup {<<f>> : f \in DOMAIN ChipFields}

ChannelField(f) == IF f = "High" THEN High ELSE IF f = "Low" THEN Low ELSE FieldsBC[f]

What(id) ==
  CASE Len(id) = 3 -> OperatorFields(id[1])
    [] Len(id) = 2 -> ChannelField(id[1])
    [] Len(id) = 1 -> ChipFields[id[1]]
Where(id) ==
  CASE Len(id) = 3 -> Address(What(id).base, id[2], id[3])
    [] Len(id) = 2 -> What(id).base + id[2]
    [] Len(id) = 1 -> What(id).base
Val(r, id) == Take(r.chip[Where(id)], What(id))

LEMMA IdIs ==
  ASSUME NEW id \in Ids
  PROVE  \/ \E f \in OperatorFieldNames, c \in Channels, o \in Operators : id = <<f, c, o>>
         \/ \E f \in ChannelNames, c \in Channels : id = <<f, c>>
         \/ \E f \in DOMAIN ChipFields : id = <<f>>
BY DEF Ids

LEMMA OperatorId ==
  ASSUME NEW f \in OperatorFieldNames, NEW c \in Channels, NEW o \in Operators
  PROVE  /\ <<f, c, o>> \in Ids /\ PutsItsBits(What(<<f, c, o>>)) /\ What(<<f, c, o>>) = OperatorFields(f)
         /\ OperatorFields(f).base \in OperatorBases
         /\ Where(<<f, c, o>>) = Address(OperatorFields(f).base, c, o)
<1>1. Len(<<f, c, o>>) = 3 /\ <<f, c, o>>[1] = f /\ <<f, c, o>>[2] = c /\ <<f, c, o>>[3] = o
  OBVIOUS
<1> DEFINE id == <<f, c, o>>
<1>2. id \in Ids
  BY DEF Ids
<1> HIDE DEF id
<1>3. What(id) = OperatorFields(f) /\ Where(id) = Address(What(id).base, c, o)
  BY <1>1 DEF What, Where, id
<1> QED  BY <1>2, <1>3, OperatorTablesFit DEF OperatorBases, id

LEMMA ChannelId ==
  ASSUME NEW f \in ChannelNames, NEW c \in Channels
  PROVE  /\ <<f, c>> \in Ids /\ PutsItsBits(What(<<f, c>>)) /\ What(<<f, c>>) = ChannelField(f)
         /\ ChannelField(f).base \in ChannelBases
         /\ Where(<<f, c>>) = ChannelField(f).base + c
<1>1. Len(<<f, c>>) = 2 /\ <<f, c>>[1] = f /\ <<f, c>>[2] = c
  OBVIOUS
<1> DEFINE id == <<f, c>>
<1>2. id \in Ids
  BY DEF Ids
<1>3. PutsItsBits(ChannelField(f)) /\ ChannelField(f).base \in ChannelBases
  BY TablesFit DEF ChannelField, ChannelNames, ChannelBases, High, Low, Field
<1> HIDE DEF id
<1>4. What(id) = ChannelField(f) /\ Where(id) = What(id).base + c
  BY <1>1 DEF What, Where, id
<1> QED  BY <1>2, <1>3, <1>4 DEF id

LEMMA ChipId ==
  ASSUME NEW f \in DOMAIN ChipFields
  PROVE  /\ <<f>> \in Ids /\ What(<<f>>) = ChipFields[f] /\ Where(<<f>>) = ChipFields[f].base
         /\ f # "NoteSelect" => PutsItsBits(What(<<f>>)) /\ ChipFields[f].base \in {1, 189}
         /\ f = "NoteSelect" => ChipFields[f].base = 8
<1>1. Len(<<f>>) = 1 /\ <<f>>[1] = f
  OBVIOUS
<1> DEFINE id == <<f>>
<1>2. id \in Ids
  BY DEF Ids
<1> HIDE DEF id
<1>3. What(id) = ChipFields[f] /\ Where(id) = What(id).base
  BY <1>1 DEF What, Where, id
<1>4. f = "NoteSelect" => ChipFields[f].base = 8
  BY DEF ChipFields, Field
<1> QED  BY <1>2, <1>3, <1>4, TablesFit DEF id

(* No two fields share a bit of a register.                                *)
Apart(F, G) == \A i \in 0..7 : ~(Has(F, i) /\ Has(G, i))

LEMMA TablesApart ==
  /\ \A f, g \in OperatorFieldNames : f # g /\ OperatorFields(f).base = OperatorFields(g).base =>
       Apart(OperatorFields(f), OperatorFields(g))
  /\ \A f, g \in ChannelNames : f # g /\ ChannelField(f).base = ChannelField(g).base =>
       Apart(ChannelField(f), ChannelField(g))
  /\ \A f, g \in DOMAIN ChipFields : f # g /\ ChipFields[f].base = ChipFields[g].base =>
       Apart(ChipFields[f], ChipFields[g])
<1>1. \A f, g \in DOMAIN ChipFields : f # g /\ ChipFields[f].base = ChipFields[g].base =>
        Apart(ChipFields[f], ChipFields[g])
  BY DEF ChipFields, Field, Apart, Has, Width
<1>2. \A f, g \in ChannelNames : f # g /\ ChannelField(f).base = ChannelField(g).base =>
        Apart(ChannelField(f), ChannelField(g))
  BY DEF ChannelNames, ChannelField, FieldsBC, High, Low, Field, Apart, Has, Width
<1>3. \A f, g \in OperatorFieldNames : f # g /\ OperatorFields(f).base = OperatorFields(g).base =>
        Apart(OperatorFields(f), OperatorFields(g))
  BY DEF OperatorFieldNames, OperatorFields, Fields20, Fields40, Fields60and80, FieldsE0, Field, Apart, Has, Width
<1> QED  BY <1>1, <1>2, <1>3

LEMMA Located ==
  ASSUME NEW id \in Ids, NEW id2 \in Ids, id # id2, Where(id) = Where(id2)
  PROVE  Apart(What(id), What(id2))
<1>1. ASSUME NEW f \in OperatorFieldNames, NEW c \in Channels, NEW o \in Operators, id = <<f, c, o>>
      PROVE  Apart(What(id), What(id2))
  <2>1. PICK g \in OperatorFieldNames, d \in Channels, p \in Operators : id2 = <<g, d, p>>
    <3>1. ASSUME NEW g \in ChannelNames, NEW d \in Channels, id2 = <<g, d>>  PROVE FALSE
      BY <1>1, <3>1, OperatorId, ChannelId, AddressesDiffer
    <3>2. ASSUME NEW g \in DOMAIN ChipFields, id2 = <<g>>  PROVE FALSE
      BY <1>1, <3>2, OperatorId, ChipId, AddressesDiffer DEF ChipAddresses
    <3> QED  BY <3>1, <3>2, IdIs
  <2>2. OperatorFields(f).base = OperatorFields(g).base /\ c = d /\ o = p
    BY <1>1, <2>1, OperatorId, AddressesDiffer
  <2>3. f # g
    BY <1>1, <2>1, <2>2
  <2> QED  BY <1>1, <2>1, <2>2, <2>3, OperatorId, TablesApart
<1>2. ASSUME NEW f \in ChannelNames, NEW c \in Channels, id = <<f, c>>
      PROVE  Apart(What(id), What(id2))
  <2>1. PICK g \in ChannelNames, d \in Channels : id2 = <<g, d>>
    <3>1. ASSUME NEW g \in OperatorFieldNames, NEW d \in Channels, NEW p \in Operators, id2 = <<g, d, p>>
          PROVE  FALSE
      BY <1>2, <3>1, OperatorId, ChannelId, AddressesDiffer
    <3>2. ASSUME NEW g \in DOMAIN ChipFields, id2 = <<g>>  PROVE FALSE
      BY <1>2, <3>2, ChannelId, ChipId, AddressesDiffer DEF ChipAddresses
    <3> QED  BY <3>1, <3>2, IdIs
  <2>2. ChannelField(f).base = ChannelField(g).base /\ c = d
    BY <1>2, <2>1, ChannelId, AddressesDiffer
  <2>3. f # g
    BY <1>2, <2>1, <2>2
  <2> QED  BY <1>2, <2>1, <2>2, <2>3, ChannelId, TablesApart
<1>3. ASSUME NEW f \in DOMAIN ChipFields, id = <<f>>
      PROVE  Apart(What(id), What(id2))
  <2>1. PICK g \in DOMAIN ChipFields : id2 = <<g>>
    <3>1. ASSUME NEW g \in OperatorFieldNames, NEW d \in Channels, NEW p \in Operators, id2 = <<g, d, p>>
          PROVE  FALSE
      BY <1>3, <3>1, OperatorId, ChipId, AddressesDiffer DEF ChipAddresses
    <3>2. ASSUME NEW g \in ChannelNames, NEW d \in Channels, id2 = <<g, d>>  PROVE FALSE
      BY <1>3, <3>2, ChannelId, ChipId, AddressesDiffer DEF ChipAddresses
    <3> QED  BY <3>1, <3>2, IdIs
  <2>2. ChipFields[f].base = ChipFields[g].base
    BY <1>3, <2>1, ChipId
  <2>3. f # g
    BY <1>3, <2>1
  <2> QED  BY <1>3, <2>1, <2>2, <2>3, ChipId, TablesApart
<1> QED  BY <1>1, <1>2, <1>3, IdIs

LEMMA InChip ==
  ASSUME NEW id \in Ids
  PROVE  /\ Where(id) \in Addresses
         /\ id # <<"NoteSelect">> => PutsItsBits(What(id))
         /\ id = <<"NoteSelect">> => \A id2 \in Ids \ {id} : Where(id2) # Where(id)
<1>1. ASSUME NEW f \in OperatorFieldNames, NEW c \in Channels, NEW o \in Operators, id = <<f, c, o>>
      PROVE  Where(id) \in Addresses /\ Where(id) # 8 /\ PutsItsBits(What(id))
  BY <1>1, OperatorId, AddressesDiffer DEF ChipAddresses
<1>2. ASSUME NEW f \in ChannelNames, NEW c \in Channels, id = <<f, c>>
      PROVE  Where(id) \in Addresses /\ Where(id) # 8 /\ PutsItsBits(What(id))
  BY <1>2, ChannelId, AddressesDiffer DEF ChipAddresses
<1>3. ASSUME NEW f \in DOMAIN ChipFields, id = <<f>>
      PROVE  /\ Where(id) \in Addresses /\ (f # "NoteSelect" => Where(id) # 8 /\ PutsItsBits(What(id)))
             /\ (f = "NoteSelect" => Where(id) = 8)
  BY <1>3, ChipId, AddressesDiffer DEF ChipAddresses
<1>4. ASSUME NEW id2 \in Ids, id2 # <<"NoteSelect">>  PROVE Where(id2) # 8
  <2>1. ASSUME NEW f \in OperatorFieldNames, NEW c \in Channels, NEW o \in Operators, id2 = <<f, c, o>>
        PROVE  Where(id2) # 8
    BY <2>1, OperatorId, AddressesDiffer DEF ChipAddresses
  <2>2. ASSUME NEW f \in ChannelNames, NEW c \in Channels, id2 = <<f, c>>
        PROVE  Where(id2) # 8
    BY <2>2, ChannelId, AddressesDiffer DEF ChipAddresses
  <2>3. ASSUME NEW f \in DOMAIN ChipFields, id2 = <<f>>
        PROVE  Where(id2) # 8
    BY <1>4, <2>3, ChipId
  <2> QED  BY <2>1, <2>2, <2>3, IdIs
<1>5. id = <<"NoteSelect">> => Where(id) = 8
  BY ChipId DEF ChipFields
<1>6. Where(id) \in Addresses
  BY <1>1, <1>2, <1>3, IdIs
<1>7. id # <<"NoteSelect">> => PutsItsBits(What(id))
  BY <1>1, <1>2, <1>3, IdIs
<1> QED  BY <1>4, <1>5, <1>6, <1>7
-----------------------------------------------------------------------------
(* What a call did: the fields it set have their new values, all others    *)
(* the ones they had.                                                      *)
Did(r, s, A) ==
  /\ Good(s) /\ DOMAIN A \subseteq Ids
  /\ \A id \in Ids : Val(s, id) = IF id \in DOMAIN A THEN A[id] ELSE Val(r, id)

LEMMA DidBoth ==
  ASSUME NEW r, NEW s, NEW t, NEW A, NEW B, Did(r, s, A), Did(s, t, B)
  PROVE  Did(r, t, B @@ A)
<1>1. DOMAIN (B @@ A) = DOMAIN B \cup DOMAIN A
  BY DEF @@
<1>2. \A id \in DOMAIN B : (B @@ A)[id] = B[id]
  BY DEF @@
<1>3. \A id \in DOMAIN A \ DOMAIN B : (B @@ A)[id] = A[id]
  BY DEF @@
<1> QED  BY <1>1, <1>2, <1>3 DEF Did

(* What is done, told in other words.                                      *)
LEMMA DidSame ==
  ASSUME NEW r, NEW s, NEW A, NEW B, Did(r, s, A), DOMAIN A = DOMAIN B, \A id \in DOMAIN A : A[id] = B[id]
  PROVE  Did(r, s, B)
BY DEF Did

LEMMA WroteIs ==
  ASSUME NEW r, Good(r), NEW s, NEW a \in Addresses, NEW v, Wrote(r, s, a, v)
  PROVE  \A id \in Ids : Val(s, id) = IF Where(id) = a THEN Take(v, What(id)) ELSE Val(r, id)
<1>1. r.chip \in [Addresses -> Byte]
  BY DEF Good, Drivers
<1> QED  BY <1>1, InChip DEF Wrote, Val

(* A field that is put into its register is all that changes.              *)
LEMMA PutDoes ==
  ASSUME NEW r, Good(r), NEW id \in Ids, NEW v \in Byte, NEW s,
         id # <<"NoteSelect">>,
         Wrote(r, s, Where(id), Put(r.chip[Where(id)], What(id), v))
  PROVE  Did(r, s, id :> (v & What(id).low))
<1> DEFINE x == r.chip[Where(id)]
           F == What(id)
           y == Put(x, F, v)
           A == id :> (v & F.low)
<1>1. x \in Byte /\ PutsItsBits(F) /\ Where(id) \in Addresses
  BY InChip DEF Good, Drivers
<1>2. Take(y, F) = v & F.low
  BY <1>1, PutAndTake
<1>3. ASSUME NEW id2 \in Ids, id2 # id, Where(id2) = Where(id)
      PROVE  Take(y, What(id2)) = Take(x, What(id2))
  <2>1. PutsItsBits(What(id2))
    BY <1>3, InChip
  <2>2. Apart(F, What(id2))
    BY <1>3, Located
  <2> QED  BY <1>1, <2>1, <2>2, PutAndTake DEF Apart
<1>4. DOMAIN A = {id} /\ A[id] = v & F.low
  BY DEF :>
<1>5. \A id2 \in Ids : Val(s, id2) = IF Where(id2) = Where(id) THEN Take(y, What(id2)) ELSE Val(r, id2)
  BY <1>1, WroteIs
<1> HIDE DEF A, y
<1>6. ASSUME NEW id2 \in Ids  PROVE Val(s, id2) = IF id2 \in DOMAIN A THEN A[id2] ELSE Val(r, id2)
  BY <1>2, <1>3, <1>4, <1>5 DEF Val
<1> QED  BY <1>4, <1>6 DEF Did, Wrote, A

LEMMA NoteSelectDoes ==
  ASSUME NEW r, Good(r), NEW v \in Byte
  PROVE  Did(r, setChipField(r, "NoteSelect", v), <<"NoteSelect">> :> (v & 1))
<1> DEFINE id == <<"NoteSelect">>
           A == id :> (v & 1)
           s == setChipField(r, "NoteSelect", v)
           F == ChipFields["NoteSelect"]
           y == Put(getChipRegister(r, 8), F, v)
<1>1. "NoteSelect" \in DOMAIN ChipFields /\ F = Field(8, 0, 1, 6, 64)
  BY DEF ChipFields
<1>2. id \in Ids /\ What(id) = F /\ Where(id) = 8 /\ 8 \in ChipAddresses /\ 8 \in Addresses
  BY <1>1, ChipId, InChip DEF ChipAddresses, Field
<1>3. getChipRegister(r, 8) \in Byte
  BY <1>2 DEF Good, Drivers
<1>4. y \in Byte /\ Take(y, F) = v & 1
  <2>1. PICK a \in BitsOf : getChipRegister(r, 8) = AsByte(a)
    BY <1>3, HasBits
  <2>2. PICK c \in BitsOf : v = AsByte(c)
    BY HasBits
  <2>3. /\ getChipRegister(r, 8) & 0 = 0 /\ v & 1 = c[0] /\ c[0] \in 0..1
    BY <2>1, <2>2, Masked, BitAt
  <2>4. y = 64 * c[0]
    BY <2>3, <1>1 DEF Put, InPlace, Weights, Field
  <2>5. Take(y, F) = (y & 64) \div 64
    BY <1>1 DEF Take, Weights, Field
  <2>6. y & 64 = y
    BY <2>3, <2>4 DEF &
  <2> QED  BY <2>3, <2>4, <2>5, <2>6 DEF Byte
<1>5. Wrote(r, s, 8, y)
  <2>1. s = setChipRegister(r, 8, y)
    BY <1>1 DEF setChipField, Field
  <2> QED  BY <1>2, <1>4, <2>1, SetChipRegister
<1>6. DOMAIN A = {id} /\ A[id] = v & 1
  BY DEF :>
<1> HIDE DEF A, s, y
<1>7. ASSUME NEW id2 \in Ids  PROVE Val(s, id2) = IF id2 \in DOMAIN A THEN A[id2] ELSE Val(r, id2)
  BY <1>2, <1>4, <1>5, <1>6, WroteIs, InChip
<1> QED  BY <1>2, <1>5, <1>6, <1>7 DEF Did, Wrote, A, s
-----------------------------------------------------------------------------
(* Getters and setters.                                                    *)
LEMMA Halves ==
  /\ "High" \in ChannelNames /\ ChannelField("High") = High /\ High.base = 176 /\ High.low = 3
  /\ "Low" \in ChannelNames /\ ChannelField("Low") = Low /\ Low.base = 160 /\ Low.low = 255
BY DEF ChannelNames, ChannelField, High, Low, Field

LEMMA ChannelByte ==
  ASSUME NEW r, Good(r), NEW b \in ChannelBases, NEW c \in Channels
  PROVE  getChannelRegister(r, b, c) = r.chip[b + c] /\ r.chip[b + c] \in Byte
<1>1. r.chip \in [Addresses -> Byte] /\ b + c \in Addresses
  BY AddressesDiffer DEF Good, Drivers
<1> QED  BY <1>1 DEF Good

LEMMA Getters ==
  ASSUME NEW r, Good(r)
  PROVE  /\ \A f \in OperatorFieldNames, c \in Channels, o \in Operators :
              getOperatorField(r, f, c, o) = Val(r, <<f, c, o>>)
         /\ \A f \in DOMAIN FieldsBC, c \in Channels : getChannelField(r, f, c) = Val(r, <<f, c>>)
         /\ \A f \in DOMAIN ChipFields : getChipField(r, f) = Val(r, <<f>>)
         /\ \A c \in Channels : getFNumber(r, c) = 256 * Val(r, <<"High", c>>) + Val(r, <<"Low", c>>)
<1>1. ASSUME NEW f \in OperatorFieldNames, NEW c \in Channels, NEW o \in Operators
      PROVE  getOperatorField(r, f, c, o) = Val(r, <<f, c, o>>)
  BY OperatorId DEF getOperatorField, Val, Good
<1>2. \A f \in DOMAIN FieldsBC : f \in ChannelNames /\ ChannelField(f) = FieldsBC[f]
  BY DEF FieldsBC, ChannelNames, ChannelField
<1>3. ASSUME NEW f \in DOMAIN FieldsBC, NEW c \in Channels
      PROVE  getChannelField(r, f, c) = Val(r, <<f, c>>)
  BY <1>2, ChannelId DEF getChannelField, Val, Good
<1>4. ASSUME NEW f \in DOMAIN ChipFields  PROVE getChipField(r, f) = Val(r, <<f>>)
  <2>1. ChipFields[f].base \in ChipAddresses
    BY ChipId DEF ChipAddresses
  <2> QED  BY <2>1, ChipId DEF getChipField, Val, Good
<1>5. ASSUME NEW c \in Channels
      PROVE  getFNumber(r, c) = 256 * Val(r, <<"High", c>>) + Val(r, <<"Low", c>>)
  <2>1. /\ Where(<<"High", c>>) = 176 + c /\ What(<<"High", c>>) = High
        /\ Where(<<"Low", c>>) = 160 + c /\ What(<<"Low", c>>) = Low
    BY Halves, ChannelId
  <2>2. /\ getChannelRegister(r, 176, c) = r.chip[176 + c] /\ r.chip[176 + c] \in Byte
        /\ getChannelRegister(r, 160, c) = r.chip[160 + c] /\ r.chip[160 + c] \in Byte
    BY ChannelByte DEF ChannelBases
  <2>3. PICK a \in BitsOf : r.chip[176 + c] = AsByte(a)
    BY <2>2, HasBits
  <2>4. PICK b \in BitsOf : r.chip[160 + c] = AsByte(b)
    BY <2>2, HasBits
  <2>5. Val(r, <<"High", c>>) = r.chip[176 + c] & 3 /\ r.chip[176 + c] & 3 \in 0..3
    <3>1. r.chip[176 + c] & 3 \in 0..3
      BY <2>3, Masked, BitAt
    <3> QED  BY <2>1, <3>1 DEF Val, Take, High, Field, Weights
  <2>6. Val(r, <<"Low", c>>) = r.chip[160 + c]
    <3>1. r.chip[160 + c] & 255 = r.chip[160 + c]
      BY <2>4, Masked DEF AsByte
    <3> QED  BY <2>1, <2>2, <3>1 DEF Val, Take, Low, Field, Weights, Byte
  <2> QED  BY <2>2, <2>5, <2>6 DEF getFNumber, Byte
<1> QED  BY <1>1, <1>3, <1>4, <1>5

LEMMA SetsOperatorField ==
  ASSUME NEW r, Good(r), NEW f \in OperatorFieldNames, NEW c \in Channels, NEW o \in Operators,
         NEW v \in Byte
  PROVE  Did(r, setOperatorField(r, f, c, o, v), <<f, c, o>> :> (v & OperatorFields(f).low))
<1> DEFINE F == OperatorFields(f)
           id == <<f, c, o>>
           s == setOperatorField(r, f, c, o, v)
<1>1. /\ id \in Ids /\ PutsItsBits(F) /\ What(id) = F /\ F.base \in OperatorBases
      /\ Where(id) = Address(F.base, c, o) /\ id # <<"NoteSelect">>
  BY OperatorId
<1>2. /\ getOperatorRegister(r, F.base, c, o) = r.chip[Where(id)] /\ r.chip[Where(id)] \in Byte
  BY <1>1, InChip DEF Good, Drivers
<1>3. s = setOperatorRegister(r, F.base, c, o, Put(r.chip[Where(id)], F, v))
  BY <1>2 DEF setOperatorField
<1>4. Put(r.chip[Where(id)], F, v) \in Byte
  BY <1>1, <1>2, PutAndTake
<1> HIDE DEF F, s
<1>5. Wrote(r, s, Where(id), Put(r.chip[Where(id)], F, v))
  BY <1>1, <1>3, <1>4, SetOperatorRegister
<1> HIDE DEF id
<1>6. Did(r, s, id :> (v & F.low))
  BY <1>1, <1>5, PutDoes
<1> QED  BY <1>6 DEF id, F, s

LEMMA PutsChannelField ==
  ASSUME NEW r, Good(r), NEW f \in ChannelNames, NEW c \in Channels, NEW v \in Byte, NEW s,
         s = setChannelRegister(r, ChannelField(f).base, c,
               Put(getChannelRegister(r, ChannelField(f).base, c), ChannelField(f), v))
  PROVE  /\ Did(r, s, <<f, c>> :> (v & ChannelField(f).low))
         /\ Wrote(r, s, ChannelField(f).base + c, s.chip[ChannelField(f).base + c])
<1> DEFINE F == ChannelField(f)
           id == <<f, c>>
<1>1. /\ id \in Ids /\ PutsItsBits(F) /\ What(id) = F /\ F.base \in ChannelBases
      /\ Where(id) = F.base + c /\ id # <<"NoteSelect">>
  BY ChannelId
<1>2. /\ getChannelRegister(r, F.base, c) = r.chip[Where(id)] /\ r.chip[Where(id)] \in Byte
      /\ Where(id) \in Addresses /\ r.chip \in [Addresses -> Byte]
  BY <1>1, InChip DEF Good, Drivers
<1>3. s = setChannelRegister(r, F.base, c, Put(r.chip[Where(id)], F, v))
  BY <1>2
<1>4. Put(r.chip[Where(id)], F, v) \in Byte
  BY <1>1, <1>2, PutAndTake
<1> HIDE DEF F
<1>5. Wrote(r, s, Where(id), Put(r.chip[Where(id)], F, v))
  BY <1>1, <1>3, <1>4, SetChannelRegister
<1> HIDE DEF id
<1>6. Did(r, s, id :> (v & F.low))
  BY <1>1, <1>5, PutDoes
<1>7. Wrote(r, s, Where(id), s.chip[Where(id)])
  BY <1>2, <1>5 DEF Wrote
<1> QED  BY <1>1, <1>6, <1>7 DEF id, F

LEMMA SetsChannelField ==
  ASSUME NEW r, Good(r), NEW f \in DOMAIN FieldsBC, NEW c \in Channels, NEW v \in Byte, NEW s,
         s = setChannelField(r, f, c, v)
  PROVE  /\ Did(r, s, <<f, c>> :> (v & FieldsBC[f].low))
         /\ Wrote(r, s, FieldsBC[f].base + c, s.chip[FieldsBC[f].base + c])
<1>1. f \in ChannelNames /\ ChannelField(f) = FieldsBC[f]
  BY DEF FieldsBC, ChannelNames, ChannelField
<1>2. s = setChannelRegister(r, ChannelField(f).base, c,
            Put(getChannelRegister(r, ChannelField(f).base, c), ChannelField(f), v))
  BY <1>1 DEF setChannelField
<1>3. /\ Did(r, s, <<f, c>> :> (v & ChannelField(f).low))
      /\ Wrote(r, s, ChannelField(f).base + c, s.chip[ChannelField(f).base + c])
  BY <1>1, <1>2, PutsChannelField
<1> QED  BY <1>1, <1>3

LEMMA SetsChipField ==
  ASSUME NEW r, Good(r), NEW f \in DOMAIN ChipFields, NEW v \in Byte
  PROVE  Did(r, setChipField(r, f, v), <<f>> :> (v & ChipFields[f].low))
<1>1. CASE f = "NoteSelect"
  <2>1. ChipFields[f].low = 1
    BY <1>1 DEF ChipFields, Field
  <2> QED  BY <1>1, <2>1, NoteSelectDoes
<1>2. CASE f # "NoteSelect"
  <2> DEFINE F == ChipFields[f]
             id == <<f>>
             s == setChipField(r, f, v)
  <2>1. /\ id \in Ids /\ PutsItsBits(F) /\ What(id) = F /\ F.base \in ChipAddresses
        /\ Where(id) = F.base /\ id # <<"NoteSelect">>
    BY <1>2, ChipId DEF ChipAddresses
  <2>2. /\ getChipRegister(r, F.base) = r.chip[Where(id)] /\ r.chip[Where(id)] \in Byte
    BY <2>1, InChip DEF Good, Drivers
  <2>3. s = setChipRegister(r, F.base, Put(r.chip[Where(id)], F, v))
    BY <2>2 DEF setChipField
  <2>4. Put(r.chip[Where(id)], F, v) \in Byte
    BY <2>1, <2>2, PutAndTake
  <2> HIDE DEF F, s
  <2>5. Wrote(r, s, Where(id), Put(r.chip[Where(id)], F, v))
    BY <2>1, <2>3, <2>4, SetChipRegister
  <2> HIDE DEF id
  <2>6. Did(r, s, id :> (v & F.low))
    BY <2>1, <2>5, PutDoes
  <2> QED  BY <2>6 DEF id, F, s
<1> QED  BY <1>1, <1>2

(* An F-number has two bits in the register of block and KEY ON and eight  *)
(* in one of its own.                                                      *)
ByHalves(r, s, c, n) ==
  \E h : /\ Did(r, h, <<"High", c>> :> (n \div 256))
         /\ Wrote(r, h, 176 + c, h.chip[176 + c])
         /\ Did(h, s, <<"Low", c>> :> (n % 256))
         /\ Wrote(h, s, 160 + c, s.chip[160 + c])

LEMMA SetsFNumber ==
  ASSUME NEW r, Good(r), NEW c \in Channels, NEW n \in 0..1023, NEW s, s = setFNumber(r, c, n)
  PROVE  ByHalves(r, s, c, n)
<1> DEFINE x == getChannelRegister(r, 176, c)
           h == setChannelRegister(r, 176, c, (x & 252) + (n \div 256))
<1>1. "High" \in ChannelNames /\ ChannelField("High") = High /\ High.base = 176 /\ High.low = 3
  BY Halves
<1>2. "Low" \in ChannelNames /\ ChannelField("Low") = Low /\ Low.base = 160 /\ Low.low = 255
  BY Halves
<1>3. n \div 256 \in 0..3 /\ n % 256 \in Byte /\ n \div 256 \in Byte
  BY DEF Byte
<1>4. /\ (n \div 256) & 3 = n \div 256 /\ (n % 256) & 255 = n % 256
      /\ \A y \in Byte : y & 0 = 0
  <2>1. \A i \in 0..3 : i & 3 = i
    BY DEF &
  <2>2. ASSUME NEW y \in Byte  PROVE y & 255 = y /\ y & 0 = 0
    <3>1. PICK b \in BitsOf : y = AsByte(b)
      BY HasBits
    <3> QED  BY <3>1, Masked DEF AsByte
  <2> QED  BY <1>3, <2>1, <2>2
<1>5. x \in Byte
  BY ChannelByte DEF ChannelBases
<1>6. (x & 252) + (n \div 256) = Put(x, High, n \div 256)
  <2>1. PICK b \in BitsOf : x = AsByte(b)
    BY <1>5, HasBits
  <2>2. x & 252 \in 0..252
    BY <2>1, Masked, BitAt
  <2> QED  BY <1>3, <1>4, <2>2 DEF Put, InPlace, High, Field, Weights
<1>7. Did(r, h, <<"High", c>> :> (n \div 256)) /\ Wrote(r, h, 176 + c, h.chip[176 + c])
  <2>1. h = setChannelRegister(r, High.base, c, Put(getChannelRegister(r, High.base, c), High, n \div 256))
    BY <1>1, <1>6
  <2> HIDE DEF h
  <2>2. /\ Did(r, h, <<"High", c>> :> ((n \div 256) & High.low))
        /\ Wrote(r, h, High.base + c, h.chip[High.base + c])
    BY <1>1, <1>3, <2>1, PutsChannelField
  <2> QED  BY <1>1, <1>4, <2>2
<1> HIDE DEF x
<1>8. s = setChannelRegister(h, 160, c, n % 256)
  BY DEF setFNumber, x
<1> HIDE DEF h
<1>9. Did(h, s, <<"Low", c>> :> (n % 256)) /\ Wrote(h, s, 160 + c, s.chip[160 + c])
  <2>1. Good(h)
    BY <1>7 DEF Did
  <2>2. getChannelRegister(h, 160, c) \in Byte
    BY <2>1, ChannelByte DEF ChannelBases
  <2>3. Put(getChannelRegister(h, 160, c), Low, n % 256) = n % 256
    BY <1>3, <1>4, <2>2 DEF Put, InPlace, Low, Field, Weights, Byte
  <2>4. s = setChannelRegister(h, Low.base, c, Put(getChannelRegister(h, Low.base, c), Low, n % 256))
    BY <1>2, <1>8, <2>3
  <2>5. /\ Did(h, s, <<"Low", c>> :> ((n % 256) & Low.low))
        /\ Wrote(h, s, Low.base + c, s.chip[Low.base + c])
    BY <1>2, <1>3, <2>1, <2>4, PutsChannelField
  <2> QED  BY <1>2, <1>4, <2>5
<1> QED  BY <1>7, <1>9 DEF ByHalves
-----------------------------------------------------------------------------
(* Instruments: what loadInstrument unpacks, and what setInstrument packs. *)
LEMMA TakeFits ==
  ASSUME NEW F, PutsItsBits(F), NEW x \in Byte
  PROVE  Take(x, F) \in Byte /\ Take(x, F) & F.low = Take(x, F)
<1>1. PICK a \in BitsOf : x = AsByte(a)
  BY HasBits
<1>2. Lifted(a, F) \in BitsOf
  BY MergedIs
<1>3. Lowest(Lifted(a, F), F) = Lifted(a, F)
  BY DEF Lowest, Lifted
<1>4. Take(x, F) = AsByte(Lifted(a, F)) /\ AsByte(Lifted(a, F)) & F.low = AsByte(Lowest(Lifted(a, F), F))
  BY <1>1, <1>2 DEF PutsItsBits
<1> QED  BY <1>2, <1>3, <1>4, BitAt

LEMMA OperatorFieldsAre ==
  /\ OperatorFields("Tremolo") = Field(32, 127,  1, 7, 128)
  /\ OperatorFields("Vibrato") = Field(32, 191,  1, 6,  64)
  /\ OperatorFields("MaintainSustain") = Field(32, 223,  1, 5,  32)
  /\ OperatorFields("EnvelopeScaling") = Field(32, 239,  1, 4,  16)
  /\ OperatorFields("Multiplier") = Field(32, 240, 15, 0,  15)
  /\ OperatorFields("ScalingLevel") = Field(64,  63,  3, 6, 192)
  /\ OperatorFields("Volume") = Field(64, 192, 63, 0,  63)
  /\ OperatorFields("Attack") = Field( 96,  15, 15, 4, 240)
  /\ OperatorFields("Decay") = Field( 96, 240, 15, 0,  15)
  /\ OperatorFields("Sustain") = Field(128,  15, 15, 4, 240)
  /\ OperatorFields("Release") = Field(128, 240, 15, 0,  15)
  /\ OperatorFields("WaveForm") = Field(224, 248, 7, 0, 7)
  /\ OperatorFieldNames = {"Tremolo", "Vibrato", "MaintainSustain", "EnvelopeScaling", "Multiplier",
                           "ScalingLevel", "Volume", "Attack", "Decay", "Sustain", "Release", "WaveForm"}
<1>1. DOMAIN Fields20 = {"Tremolo", "Vibrato", "MaintainSustain", "EnvelopeScaling", "Multiplier"}
  BY DEF Fields20
<1>2. DOMAIN Fields40 = {"ScalingLevel", "Volume"}
  BY DEF Fields40
<1>3. DOMAIN Fields60and80 = {"Attack", "Decay", "Sustain", "Release"}
  BY DEF Fields60and80
<1>4. DOMAIN FieldsE0 = {"WaveForm"}
  BY DEF FieldsE0
<1>5. \A f \in DOMAIN Fields20 : OperatorFields(f) = Fields20[f]
  BY DEF OperatorFields, Fields20, Fields40, Fields60and80, FieldsE0
<1>6. \A f \in DOMAIN Fields40 : OperatorFields(f) = Fields40[f]
  BY <1>1, <1>2 DEF OperatorFields, Fields20, Fields40, Fields60and80, FieldsE0
<1>7. \A f \in DOMAIN Fields60and80 : OperatorFields(f) = Fields60and80[f]
  BY <1>1, <1>2, <1>3 DEF OperatorFields, Fields20, Fields40, Fields60and80, FieldsE0
<1>8. \A f \in DOMAIN FieldsE0 : OperatorFields(f) = FieldsE0[f]
  BY <1>1, <1>2, <1>3, <1>4 DEF OperatorFields, Fields20, Fields40, Fields60and80, FieldsE0
<1>9. \A f \in {"Tremolo", "Vibrato", "MaintainSustain", "EnvelopeScaling", "Multiplier"} : OperatorFields(f) = Fields20[f]
  BY <1>1, <1>5
<1>10. \A f \in {"ScalingLevel", "Volume"} : OperatorFields(f) = Fields40[f]
  BY <1>2, <1>6
<1>11. \A f \in {"Attack", "Decay", "Sustain", "Release"} : OperatorFields(f) = Fields60and80[f]
  BY <1>3, <1>7
<1>12. OperatorFields("WaveForm") = FieldsE0["WaveForm"]
  BY <1>4, <1>8
<1>13. /\ OperatorFields("Tremolo") = Field(32, 127,  1, 7, 128)
       /\ OperatorFields("Vibrato") = Field(32, 191,  1, 6,  64)
       /\ OperatorFields("MaintainSustain") = Field(32, 223,  1, 5,  32)
       /\ OperatorFields("EnvelopeScaling") = Field(32, 239,  1, 4,  16)
       /\ OperatorFields("Multiplier") = Field(32, 240, 15, 0,  15)
  BY <1>9 DEF Fields20
<1>14. OperatorFields("ScalingLevel") = Field(64,  63,  3, 6, 192) /\ OperatorFields("Volume") = Field(64, 192, 63, 0,  63)
  BY <1>10 DEF Fields40
<1>15. /\ OperatorFields("Attack") = Field( 96,  15, 15, 4, 240) /\ OperatorFields("Decay") = Field( 96, 240, 15, 0,  15)
       /\ OperatorFields("Sustain") = Field(128,  15, 15, 4, 240) /\ OperatorFields("Release") = Field(128, 240, 15, 0,  15)
  BY <1>11 DEF Fields60and80
<1>16. OperatorFields("WaveForm") = Field(224, 248, 7, 0, 7)
  BY <1>12 DEF FieldsE0
<1>17. OperatorFieldNames = {"Tremolo", "Vibrato", "MaintainSustain", "EnvelopeScaling", "Multiplier",
                           "ScalingLevel", "Volume", "Attack", "Decay", "Sustain", "Release", "WaveForm"}
  BY <1>1, <1>2, <1>3, <1>4 DEF OperatorFieldNames
<1> QED  BY <1>13, <1>14, <1>15, <1>16, <1>17

Level == [OperatorFieldNames -> Byte]

LEMMA WeightsAre ==
  /\ Weights[1] = 1 /\ Weights[2] = 2 /\ Weights[3] = 4 /\ Weights[4] = 8
  /\ Weights[5] = 16 /\ Weights[6] = 32 /\ Weights[7] = 64 /\ Weights[8] = 128
BY DEF Weights

LEMMA PackedHolds ==
  ASSUME NEW level \in Level, NEW b \in OperatorBases
  PROVE  /\ Packed(level, b) \in Byte
         /\ \A f \in OperatorFieldNames : OperatorFields(f).base = b =>
              Take(Packed(level, b), OperatorFields(f)) = level[f] & OperatorFields(f).low
<1> DEFINE P == Packed(level, b)
           bits(f) == InPlace(OperatorFields(f), level[f])
<1>1. \A f \in OperatorFieldNames : \E a \in BitsOf : level[f] = AsByte(a)
  BY HasBits DEF Level
<1>2. PICK a \in [OperatorFieldNames -> BitsOf] : \A f \in OperatorFieldNames : level[f] = AsByte(a[f])
  <2> DEFINE g == [f \in OperatorFieldNames |-> CHOOSE x \in BitsOf : level[f] = AsByte(x)]
  <2>1. g \in [OperatorFieldNames -> BitsOf] /\ \A f \in OperatorFieldNames : level[f] = AsByte(g[f])
    BY <1>1
  <2> QED  BY <2>1
<1>3. ASSUME NEW f \in OperatorFieldNames
      PROVE  /\ level[f] & 1 = a[f][0]
             /\ level[f] & 3 = a[f][0] + 2 * a[f][1]
             /\ level[f] & 7 = a[f][0] + 2 * a[f][1] + 4 * a[f][2]
             /\ level[f] & 15 = a[f][0] + 2 * a[f][1] + 4 * a[f][2] + 8 * a[f][3]
             /\ level[f] & 63 = a[f][0] + 2 * a[f][1] + 4 * a[f][2] + 8 * a[f][3] + 16 * a[f][4]
                                  + 32 * a[f][5]
             /\ \A i \in 0..7 : a[f][i] \in 0..1
  BY <1>2, Masked, BitAt
<1>4. ASSUME NEW y0 \in 0..1, NEW y1 \in 0..1, NEW y2 \in 0..1, NEW y3 \in 0..1, NEW y4 \in 0..1,
             NEW y5 \in 0..1, NEW y6 \in 0..1, NEW y7 \in 0..1, NEW x,
             x = y0 + 2 * y1 + 4 * y2 + 8 * y3 + 16 * y4 + 32 * y5 + 64 * y6 + 128 * y7
      PROVE  /\ x \in Byte /\ x & 128 = 128 * y7 /\ x & 64 = 64 * y6 /\ x & 32 = 32 * y5 /\ x & 16 = 16 * y4
             /\ x & 15 = y0 + 2 * y1 + 4 * y2 + 8 * y3
             /\ x & 192 = 64 * y6 + 128 * y7
             /\ x & 63 = y0 + 2 * y1 + 4 * y2 + 8 * y3 + 16 * y4 + 32 * y5
             /\ x & 240 = 16 * y4 + 32 * y5 + 64 * y6 + 128 * y7
             /\ x & 7 = y0 + 2 * y1 + 4 * y2
  <2> DEFINE y == [i \in 0..7 |-> CASE i = 0 -> y0 [] i = 1 -> y1 [] i = 2 -> y2 [] i = 3 -> y3
                                    [] i = 4 -> y4 [] i = 5 -> y5 [] i = 6 -> y6 [] i = 7 -> y7]
  <2>1. /\ y[0] = y0 /\ y[1] = y1 /\ y[2] = y2 /\ y[3] = y3
        /\ y[4] = y4 /\ y[5] = y5 /\ y[6] = y6 /\ y[7] = y7
    OBVIOUS
  <2>2. y \in BitsOf
    BY DEF BitsOf
  <2> HIDE DEF y
  <2>3. x = AsByte(y)
    BY <1>4, <2>1 DEF AsByte
  <2>4. x \in Byte
    BY <2>2, <2>3, BitAt
  <2>5. /\ x & 128 = 128 * y[7] /\ x & 64 = 64 * y[6] /\ x & 32 = 32 * y[5] /\ x & 16 = 16 * y[4]
        /\ x & 15 = y[0] + 2 * y[1] + 4 * y[2] + 8 * y[3]
        /\ x & 192 = 64 * y[6] + 128 * y[7]
        /\ x & 63 = y[0] + 2 * y[1] + 4 * y[2] + 8 * y[3] + 16 * y[4] + 32 * y[5]
        /\ x & 240 = 16 * y[4] + 32 * y[5] + 64 * y[6] + 128 * y[7]
        /\ x & 7 = y[0] + 2 * y[1] + 4 * y[2]
    BY <2>2, <2>3, Masked
  <2> QED  BY <2>1, <2>4, <2>5
<1>5. \A f \in OperatorFieldNames : \A i \in 0..7 : a[f][i] \in 0..1
  BY <1>3
<1> QED
  <2> USE DEF Field
  <2>1. CASE b = 32
    <3> DEFINE T == a["Tremolo"]  V == a["Vibrato"]  M == a["MaintainSustain"]
               E == a["EnvelopeScaling"]  N == a["Multiplier"]
    <3>0. {"Tremolo", "Vibrato", "MaintainSustain", "EnvelopeScaling", "Multiplier"} \subseteq OperatorFieldNames
      BY OperatorFieldsAre
    <3>1. P = bits("Tremolo") + bits("Vibrato") + bits("MaintainSustain")
                + bits("EnvelopeScaling") + bits("Multiplier")
      BY <2>1 DEF Packed
    <3>2. /\ bits("Tremolo") = 128 * T[0] /\ bits("Vibrato") = 64 * V[0]
          /\ bits("MaintainSustain") = 32 * M[0] /\ bits("EnvelopeScaling") = 16 * E[0]
          /\ bits("Multiplier") = N[0] + 2 * N[1] + 4 * N[2] + 8 * N[3]
      BY <3>0, <1>3, OperatorFieldsAre DEF InPlace, Weights
    <3>3. /\ T[0] \in 0..1 /\ V[0] \in 0..1 /\ M[0] \in 0..1 /\ E[0] \in 0..1
          /\ N[0] \in 0..1 /\ N[1] \in 0..1 /\ N[2] \in 0..1 /\ N[3] \in 0..1
      BY <3>0, <1>5
    <3> HIDE DEF T, V, M, E, N, P, bits
    <3>4. P = N[0] + 2 * N[1] + 4 * N[2] + 8 * N[3] + 16 * E[0] + 32 * M[0] + 64 * V[0] + 128 * T[0]
      BY <3>1, <3>2, <3>3
    <3>5. /\ P \in Byte /\ P & 128 = 128 * T[0] /\ P & 64 = 64 * V[0] /\ P & 32 = 32 * M[0]
          /\ P & 16 = 16 * E[0] /\ P & 15 = N[0] + 2 * N[1] + 4 * N[2] + 8 * N[3]
      BY <3>3, <3>4, <1>4
    <3>6. /\ Take(P, OperatorFields("Tremolo")) = T[0] /\ Take(P, OperatorFields("Vibrato")) = V[0]
          /\ Take(P, OperatorFields("MaintainSustain")) = M[0]
          /\ Take(P, OperatorFields("EnvelopeScaling")) = E[0]
          /\ Take(P, OperatorFields("Multiplier")) = N[0] + 2 * N[1] + 4 * N[2] + 8 * N[3]
      BY <3>3, <3>5, OperatorFieldsAre DEF Take, Weights
    <3>7. /\ level["Tremolo"] & 1 = T[0] /\ level["Vibrato"] & 1 = V[0] /\ level["MaintainSustain"] & 1 = M[0]
          /\ level["EnvelopeScaling"] & 1 = E[0]
          /\ level["Multiplier"] & 15 = N[0] + 2 * N[1] + 4 * N[2] + 8 * N[3]
      BY <3>0, <1>3 DEF T, V, M, E, N
    <3>8. \A f \in OperatorFieldNames : OperatorFields(f).base = 32 =>
            f \in {"Tremolo", "Vibrato", "MaintainSustain", "EnvelopeScaling", "Multiplier"}
      BY OperatorFieldsAre
    <3>9. \A f \in OperatorFieldNames : OperatorFields(f).base = 32 =>
            Take(P, OperatorFields(f)) = level[f] & OperatorFields(f).low
      BY <3>6, <3>7, <3>8, OperatorFieldsAre
    <3> QED  BY <2>1, <3>5, <3>9 DEF P
  <2>2. CASE b = 64
    <3> DEFINE S == a["ScalingLevel"]  V == a["Volume"]
    <3>0. {"ScalingLevel", "Volume"} \subseteq OperatorFieldNames
      BY OperatorFieldsAre
    <3>1. P = bits("ScalingLevel") + bits("Volume")
      BY <2>2 DEF Packed
    <3>2. /\ bits("ScalingLevel") = 64 * (S[0] + 2 * S[1])
          /\ bits("Volume") = V[0] + 2 * V[1] + 4 * V[2] + 8 * V[3] + 16 * V[4] + 32 * V[5]
      BY <3>0, <1>3, OperatorFieldsAre DEF InPlace, Weights
    <3>3. /\ S[0] \in 0..1 /\ S[1] \in 0..1 /\ V[0] \in 0..1 /\ V[1] \in 0..1
          /\ V[2] \in 0..1 /\ V[3] \in 0..1 /\ V[4] \in 0..1 /\ V[5] \in 0..1
      BY <3>0, <1>5
    <3> HIDE DEF S, V, P, bits
    <3>4. P = V[0] + 2 * V[1] + 4 * V[2] + 8 * V[3] + 16 * V[4] + 32 * V[5] + 64 * S[0] + 128 * S[1]
      BY <3>1, <3>2, <3>3
    <3>5. /\ P \in Byte /\ P & 192 = 64 * S[0] + 128 * S[1]
          /\ P & 63 = V[0] + 2 * V[1] + 4 * V[2] + 8 * V[3] + 16 * V[4] + 32 * V[5]
      BY <3>3, <3>4, <1>4
    <3>6. /\ Take(P, OperatorFields("ScalingLevel")) = S[0] + 2 * S[1]
          /\ Take(P, OperatorFields("Volume")) = V[0] + 2 * V[1] + 4 * V[2] + 8 * V[3] + 16 * V[4] + 32 * V[5]
      BY <3>3, <3>5, OperatorFieldsAre DEF Take, Weights
    <3>7. /\ level["ScalingLevel"] & 3 = S[0] + 2 * S[1]
          /\ level["Volume"] & 63 = V[0] + 2 * V[1] + 4 * V[2] + 8 * V[3] + 16 * V[4] + 32 * V[5]
      BY <3>0, <1>3 DEF S, V
    <3>8. \A f \in OperatorFieldNames : OperatorFields(f).base = 64 => f \in {"ScalingLevel", "Volume"}
      BY OperatorFieldsAre
    <3>9. \A f \in OperatorFieldNames : OperatorFields(f).base = 64 =>
            Take(P, OperatorFields(f)) = level[f] & OperatorFields(f).low
      BY <3>6, <3>7, <3>8, OperatorFieldsAre
    <3> QED  BY <2>2, <3>5, <3>9 DEF P
  <2>3. CASE b = 96
    <3> DEFINE A == a["Attack"]  D == a["Decay"]
    <3>0. {"Attack", "Decay"} \subseteq OperatorFieldNames
      BY OperatorFieldsAre
    <3>1. P = bits("Attack") + bits("Decay")
      BY <2>3 DEF Packed
    <3>2. /\ bits("Attack") = 16 * (A[0] + 2 * A[1] + 4 * A[2] + 8 * A[3])
          /\ bits("Decay") = D[0] + 2 * D[1] + 4 * D[2] + 8 * D[3]
      BY <3>0, <1>3, OperatorFieldsAre DEF InPlace, Weights
    <3>3. /\ A[0] \in 0..1 /\ A[1] \in 0..1 /\ A[2] \in 0..1 /\ A[3] \in 0..1
          /\ D[0] \in 0..1 /\ D[1] \in 0..1 /\ D[2] \in 0..1 /\ D[3] \in 0..1
      BY <3>0, <1>5
    <3> HIDE DEF A, D, P, bits
    <3>4. P = D[0] + 2 * D[1] + 4 * D[2] + 8 * D[3] + 16 * A[0] + 32 * A[1] + 64 * A[2] + 128 * A[3]
      BY <3>1, <3>2, <3>3
    <3>5. /\ P \in Byte /\ P & 240 = 16 * A[0] + 32 * A[1] + 64 * A[2] + 128 * A[3]
          /\ P & 15 = D[0] + 2 * D[1] + 4 * D[2] + 8 * D[3]
      BY <3>3, <3>4, <1>4
    <3>6. /\ Take(P, OperatorFields("Attack")) = A[0] + 2 * A[1] + 4 * A[2] + 8 * A[3]
          /\ Take(P, OperatorFields("Decay")) = D[0] + 2 * D[1] + 4 * D[2] + 8 * D[3]
      BY <3>3, <3>5, OperatorFieldsAre DEF Take, Weights
    <3>7. /\ level["Attack"] & 15 = A[0] + 2 * A[1] + 4 * A[2] + 8 * A[3]
          /\ level["Decay"] & 15 = D[0] + 2 * D[1] + 4 * D[2] + 8 * D[3]
      BY <3>0, <1>3 DEF A, D
    <3>8. \A f \in OperatorFieldNames : OperatorFields(f).base = 96 => f \in {"Attack", "Decay"}
      BY OperatorFieldsAre
    <3>9. \A f \in OperatorFieldNames : OperatorFields(f).base = 96 =>
            Take(P, OperatorFields(f)) = level[f] & OperatorFields(f).low
      BY <3>6, <3>7, <3>8, OperatorFieldsAre
    <3> QED  BY <2>3, <3>5, <3>9 DEF P
  <2>4. CASE b = 128
    <3> DEFINE A == a["Sustain"]  D == a["Release"]
    <3>0. {"Sustain", "Release"} \subseteq OperatorFieldNames
      BY OperatorFieldsAre
    <3>1. P = bits("Sustain") + bits("Release")
      BY <2>4 DEF Packed
    <3>2. /\ bits("Sustain") = 16 * (A[0] + 2 * A[1] + 4 * A[2] + 8 * A[3])
          /\ bits("Release") = D[0] + 2 * D[1] + 4 * D[2] + 8 * D[3]
      <4>1. /\ level["Sustain"] & 15 = A[0] + 2 * A[1] + 4 * A[2] + 8 * A[3]
            /\ level["Release"] & 15 = D[0] + 2 * D[1] + 4 * D[2] + 8 * D[3]
        BY <3>0, <1>3
      <4>2. /\ OperatorFields("Sustain").low = 15 /\ OperatorFields("Sustain").shift = 4
            /\ OperatorFields("Release").low = 15 /\ OperatorFields("Release").shift = 0
        BY OperatorFieldsAre
      <4>3. /\ A[0] \in 0..1 /\ A[1] \in 0..1 /\ A[2] \in 0..1 /\ A[3] \in 0..1
            /\ D[0] \in 0..1 /\ D[1] \in 0..1 /\ D[2] \in 0..1 /\ D[3] \in 0..1
        BY <3>0, <1>5
      <4> HIDE DEF A, D
      <4> QED  BY <4>1, <4>2, <4>3, WeightsAre DEF InPlace
    <3>3. /\ A[0] \in 0..1 /\ A[1] \in 0..1 /\ A[2] \in 0..1 /\ A[3] \in 0..1
          /\ D[0] \in 0..1 /\ D[1] \in 0..1 /\ D[2] \in 0..1 /\ D[3] \in 0..1
      BY <3>0, <1>5
    <3> HIDE DEF A, D, P, bits
    <3>4. P = D[0] + 2 * D[1] + 4 * D[2] + 8 * D[3] + 16 * A[0] + 32 * A[1] + 64 * A[2] + 128 * A[3]
      BY <3>1, <3>2, <3>3
    <3>5. /\ P \in Byte /\ P & 240 = 16 * A[0] + 32 * A[1] + 64 * A[2] + 128 * A[3]
          /\ P & 15 = D[0] + 2 * D[1] + 4 * D[2] + 8 * D[3]
      BY <3>3, <3>4, <1>4
    <3>6. /\ Take(P, OperatorFields("Sustain")) = A[0] + 2 * A[1] + 4 * A[2] + 8 * A[3]
          /\ Take(P, OperatorFields("Release")) = D[0] + 2 * D[1] + 4 * D[2] + 8 * D[3]
      BY <3>3, <3>5, OperatorFieldsAre DEF Take, Weights
    <3>7. /\ level["Sustain"] & 15 = A[0] + 2 * A[1] + 4 * A[2] + 8 * A[3]
          /\ level["Release"] & 15 = D[0] + 2 * D[1] + 4 * D[2] + 8 * D[3]
      BY <3>0, <1>3 DEF A, D
    <3>8. \A f \in OperatorFieldNames : OperatorFields(f).base = 128 => f \in {"Sustain", "Release"}
      BY OperatorFieldsAre
    <3>9. \A f \in OperatorFieldNames : OperatorFields(f).base = 128 =>
            Take(P, OperatorFields(f)) = level[f] & OperatorFields(f).low
      BY <3>6, <3>7, <3>8, OperatorFieldsAre
    <3> QED  BY <2>4, <3>5, <3>9 DEF P
  <2>5. CASE b = 224
    <3> DEFINE W == a["WaveForm"]
    <3>0. "WaveForm" \in OperatorFieldNames
      BY OperatorFieldsAre
    <3>1. P = bits("WaveForm")
      BY <2>5 DEF Packed
    <3>3. W[0] \in 0..1 /\ W[1] \in 0..1 /\ W[2] \in 0..1
      BY <3>0, <1>5
    <3>2. bits("WaveForm") = W[0] + 2 * W[1] + 4 * W[2]
      <4>1. OperatorFields("WaveForm").low = 7 /\ OperatorFields("WaveForm").shift = 0
        BY OperatorFieldsAre
      <4>2. level["WaveForm"] & 7 = W[0] + 2 * W[1] + 4 * W[2]
        BY <3>0, <1>3
      <4> HIDE DEF W
      <4> QED  BY <3>3, <4>1, <4>2, WeightsAre DEF InPlace
    <3> HIDE DEF W, P, bits
    <3>4. P = W[0] + 2 * W[1] + 4 * W[2] + 8 * 0 + 16 * 0 + 32 * 0 + 64 * 0 + 128 * 0
      BY <3>1, <3>2, <3>3
    <3>5. P \in Byte /\ P & 7 = W[0] + 2 * W[1] + 4 * W[2]
      BY <3>3, <3>4, <1>4
    <3>6. Take(P, OperatorFields("WaveForm")) = W[0] + 2 * W[1] + 4 * W[2]
      BY <3>3, <3>5, OperatorFieldsAre DEF Take, Weights
    <3>7. level["WaveForm"] & 7 = W[0] + 2 * W[1] + 4 * W[2]
      BY <3>0, <1>3 DEF W
    <3>8. \A f \in OperatorFieldNames : OperatorFields(f).base = 224 => f \in {"WaveForm"}
      BY OperatorFieldsAre
    <3>9. \A f \in OperatorFieldNames : OperatorFields(f).base = 224 =>
            Take(P, OperatorFields(f)) = level[f] & OperatorFields(f).low
      BY <3>6, <3>7, <3>8, OperatorFieldsAre
    <3> QED  BY <2>5, <3>5, <3>9 DEF P
  <2> QED  BY <2>1, <2>2, <2>3, <2>4, <2>5 DEF OperatorBases

(* The fields of an operator in the registers with bases B, and what they  *)
(* are set to.                                                             *)
Of(B, c, o) == {<<f, c, o>> : f \in {g \in OperatorFieldNames : OperatorFields(g).base \in B}}
LevelsOf(B, c, o, level) ==
  [id \in Of(B, c, o) |-> level[id[1]] & OperatorFields(id[1]).low]

LEMMA SetsOperatorBase ==
  ASSUME NEW r, NEW q, NEW level \in Level, NEW B, NEW b \in OperatorBases, NEW c \in Channels,
         NEW o \in Operators, Did(r, q, LevelsOf(B, c, o, level)), NEW s,
         s = setOperatorRegister(q, b, c, o, Packed(level, b))
  PROVE  Did(r, s, LevelsOf(B \cup {b}, c, o, level))
<1> DEFINE v == Packed(level, b)
           L == LevelsOf(B, c, o, level)
           M == LevelsOf(B \cup {b}, c, o, level)
<1>1. Good(q) /\ v \in Byte
  BY PackedHolds DEF Did
<1>2. Wrote(q, s, Address(b, c, o), v) /\ Good(s)
  <2>1. Wrote(q, setOperatorRegister(q, b, c, o, v), Address(b, c, o), v)
    BY <1>1, SetOperatorRegister
  <2> QED  BY <2>1 DEF Wrote
<1> HIDE DEF v
<1>3. \A id \in Ids : Val(s, id) = IF Where(id) = Address(b, c, o) THEN Take(v, What(id)) ELSE Val(q, id)
  <2>1. Address(b, c, o) \in Addresses
    BY AddressesDiffer
  <2> QED  BY <1>1, <1>2, <2>1, WroteIs
<1>4. ASSUME NEW id \in Ids, Where(id) = Address(b, c, o)
      PROVE  \E f \in OperatorFieldNames : OperatorFields(f).base = b /\ id = <<f, c, o>>
  <2>1. PICK f \in OperatorFieldNames, d \in Channels, p \in Operators : id = <<f, d, p>>
    <3>1. ASSUME NEW g \in ChannelNames, NEW d \in Channels, id = <<g, d>>  PROVE FALSE
      BY <1>4, <3>1, ChannelId, AddressesDiffer
    <3>2. ASSUME NEW g \in DOMAIN ChipFields, id = <<g>>  PROVE FALSE
      BY <1>4, <3>2, ChipId, AddressesDiffer DEF ChipAddresses
    <3> QED  BY <3>1, <3>2, IdIs
  <2> QED  BY <1>4, <2>1, OperatorId, AddressesDiffer
<1>5. ASSUME NEW f \in OperatorFieldNames, OperatorFields(f).base = b
      PROVE  /\ Where(<<f, c, o>>) = Address(b, c, o) /\ <<f, c, o>> \in DOMAIN M
             /\ M[<<f, c, o>>] = Take(v, What(<<f, c, o>>))
  <2>1. Take(v, OperatorFields(f)) = level[f] & OperatorFields(f).low
    BY <1>5, PackedHolds DEF v
  <2>2. <<f, c, o>> \in Of(B \cup {b}, c, o)
    BY <1>5 DEF Of
  <2> QED  BY <1>5, <2>1, <2>2, OperatorId DEF LevelsOf
<1>6. ASSUME NEW id \in DOMAIN M, Where(id) # Address(b, c, o)
      PROVE  id \in DOMAIN L /\ M[id] = L[id]
  <2>1. id \in Of(B \cup {b}, c, o)
    BY DEF LevelsOf
  <2>2. PICK f \in OperatorFieldNames : OperatorFields(f).base \in B \cup {b} /\ id = <<f, c, o>>
    BY <2>1 DEF Of
  <2>3. OperatorFields(f).base \in B
    BY <1>5, <1>6, <2>2
  <2>4. id \in Of(B, c, o)
    BY <2>2, <2>3 DEF Of
  <2> QED  BY <2>1, <2>4 DEF LevelsOf
<1>7. DOMAIN L \subseteq DOMAIN M /\ DOMAIN M \subseteq Ids
  BY DEF LevelsOf, Of, Ids
<1> HIDE DEF L, M
<1>8. ASSUME NEW id \in Ids  PROVE Val(s, id) = IF id \in DOMAIN M THEN M[id] ELSE Val(r, id)
  <2>1. CASE Where(id) = Address(b, c, o)
    <3>1. PICK f \in OperatorFieldNames : OperatorFields(f).base = b /\ id = <<f, c, o>>
      BY <1>4, <2>1
    <3>2. id \in DOMAIN M /\ M[id] = Take(v, What(id))
      BY <1>5, <3>1
    <3> QED  BY <1>3, <2>1, <3>2
  <2>2. CASE Where(id) # Address(b, c, o)
    <3>1. Val(s, id) = Val(q, id)
      BY <1>3, <2>2
    <3>2. Val(q, id) = IF id \in DOMAIN L THEN L[id] ELSE Val(r, id)
      BY DEF Did, L
    <3>3. id \in DOMAIN L <=> id \in DOMAIN M
      BY <1>6, <1>7, <2>2
    <3> QED  BY <1>6, <2>2, <3>1, <3>2, <3>3
  <2> QED  BY <2>1, <2>2
<1> QED  BY <1>2, <1>7, <1>8 DEF Did, M

(* An instrument as loadInstrument makes one.                              *)
Instrument(instrument) ==
  /\ instrument.operators \in [Operators -> Level]
  /\ \A o \in Operators, f \in OperatorFieldNames :
       instrument.operators[o][f] & OperatorFields(f).low = instrument.operators[o][f]
  /\ instrument.feedback \in 0..7
  /\ instrument.isAdditiveSynth \in 0..1

Volumes == {0, 50, 100}

Loud(instrument, o, volume) ==
  [instrument.operators[o] EXCEPT !["Volume"] = OutputLevel(@, volume)]

LEMMA LowKept ==
  /\ \A x \in 0..63 : x & 63 = x
  /\ \A x \in 0..31 : x & 31 = x
  /\ \A x \in 0..7 : x & 7 = x
  /\ \A x \in 0..1 : x & 1 = x
  /\ \A x \in Byte : x & 63 \in 0..63 /\ x & 31 \in 0..31 /\ x & 7 \in 0..7 /\ x & 1 \in 0..1
<1>1. ASSUME NEW x \in Byte
      PROVE  \E b \in BitsOf :
               /\ x = AsByte(b)
               /\ x & 63 = b[0] + 2 * b[1] + 4 * b[2] + 8 * b[3] + 16 * b[4] + 32 * b[5]
               /\ x & 31 = b[0] + 2 * b[1] + 4 * b[2] + 8 * b[3] + 16 * b[4]
               /\ x & 7 = b[0] + 2 * b[1] + 4 * b[2]
               /\ x & 1 = b[0]
               /\ \A i \in 0..7 : b[i] \in 0..1
  BY HasBits, Masked, BitAt
<1>2. ASSUME NEW x \in 0..63  PROVE x & 63 = x
  <2>1. PICK b \in BitsOf :
               /\ x = AsByte(b)
               /\ x & 63 = b[0] + 2 * b[1] + 4 * b[2] + 8 * b[3] + 16 * b[4] + 32 * b[5]
               /\ \A i \in 0..7 : b[i] \in 0..1
    <3>1. x \in Byte
      BY DEF Byte
    <3> QED  BY <1>1, <3>1
  <2> QED  BY <2>1, SMTT(30) DEF AsByte
<1>3. ASSUME NEW x \in 0..7  PROVE x & 7 = x
  <2>1. PICK b \in BitsOf :
               /\ x = AsByte(b)
               /\ x & 7 = b[0] + 2 * b[1] + 4 * b[2]
               /\ \A i \in 0..7 : b[i] \in 0..1
    BY <1>1, SMTT(30) DEF Byte
  <2> QED  BY <2>1, SMTT(30) DEF AsByte
<1>4. ASSUME NEW x \in 0..1  PROVE x & 1 = x
  <2>1. PICK b \in BitsOf : x = AsByte(b) /\ x & 1 = b[0] /\ \A i \in 0..7 : b[i] \in 0..1
    BY <1>1 DEF Byte
  <2> QED  BY <2>1, SMTT(30) DEF AsByte
<1>5. \A x \in Byte : x & 63 \in 0..63 /\ x & 31 \in 0..31 /\ x & 7 \in 0..7 /\ x & 1 \in 0..1
  BY <1>1
<1>6. ASSUME NEW x \in 0..31  PROVE x & 31 = x
  <2>1. PICK b \in BitsOf :
               /\ x = AsByte(b)
               /\ x & 31 = b[0] + 2 * b[1] + 4 * b[2] + 8 * b[3] + 16 * b[4]
               /\ \A i \in 0..7 : b[i] \in 0..1
    <3>1. x \in Byte
      BY DEF Byte
    <3> QED  BY <1>1, <3>1
  <2> QED  BY <2>1 DEF AsByte
<1> QED  BY <1>2, <1>3, <1>4, <1>5, <1>6

LEMMA OutputLevelIs ==
  ASSUME NEW level \in 0..63, NEW volume \in Volumes
  PROVE  OutputLevel(level, volume) \in 0..63
<1>1. clampValue(volume, 0, 100) = volume
  BY DEF clampValue, Volumes
<1>2. ((63 - level) * volume) \div 100 \in 0..63
  <2>1. volume = 0 \/ volume = 50 \/ volume = 100
    BY DEF Volumes
  <2>2. CASE volume = 0
    BY <2>2
  <2>3. CASE volume = 50
    BY <2>3
  <2>4. CASE volume = 100
    BY <2>4
  <2> QED  BY <2>1, <2>2, <2>3, <2>4
<1> QED  BY <1>1, <1>2 DEF OutputLevel

LEMMA LoudIs ==
  ASSUME NEW instrument, Instrument(instrument), NEW o \in Operators, NEW volume \in Volumes
  PROVE  /\ Loud(instrument, o, volume) \in Level
         /\ \A f \in OperatorFieldNames :
              /\ Loud(instrument, o, volume)[f] & OperatorFields(f).low = Loud(instrument, o, volume)[f]
              /\ Loud(instrument, o, volume)[f] =
                   IF f = "Volume" THEN OutputLevel(instrument.operators[o]["Volume"], volume)
                                   ELSE instrument.operators[o][f]
<1> DEFINE level == instrument.operators[o]
           x == OutputLevel(level["Volume"], volume)
           loud == Loud(instrument, o, volume)
<1>1. /\ level \in Level
      /\ \A f \in OperatorFieldNames : level[f] & OperatorFields(f).low = level[f]
      /\ loud = [level EXCEPT !["Volume"] = x]
  BY DEF Instrument, Loud
<1>2. "Volume" \in OperatorFieldNames /\ OperatorFields("Volume").low = 63
  BY OperatorFieldsAre DEF Field
<1> HIDE DEF level, loud
<1>3. level["Volume"] \in 0..63
  <2>1. level["Volume"] \in Byte /\ level["Volume"] & 63 = level["Volume"]
    <3>1. level["Volume"] \in Byte
      BY <1>1, <1>2 DEF Level
    <3>2. level["Volume"] & OperatorFields("Volume").low = level["Volume"]
      BY <1>1, <1>2
    <3> QED  BY <1>2, <3>1, <3>2
  <2>2. level["Volume"] & 63 \in 0..63
    BY <2>1, LowKept
  <2> QED  BY <2>1, <2>2
<1>4. x \in 0..63
  BY <1>3, OutputLevelIs
<1> HIDE DEF x
<1>5. x \in Byte /\ x & 63 = x
  <2>1. x & 63 = x
    BY <1>4, LowKept
  <2> QED  BY <1>4, <2>1 DEF Byte
<1>6. loud \in Level /\ loud["Volume"] = x /\ \A f \in OperatorFieldNames : f # "Volume" => loud[f] = level[f]
  BY <1>1, <1>2, <1>5 DEF Level
<1> QED  BY <1>1, <1>2, <1>5, <1>6 DEF x, level, loud

LEMMA SetsOperatorInstrument ==
  ASSUME NEW r, Good(r), NEW c \in Channels, NEW o \in Operators, NEW instrument,
         Instrument(instrument), NEW volume \in Volumes
  PROVE  Did(r, setOperatorInstrument(r, c, o, instrument, volume),
             LevelsOf(OperatorBases, c, o, Loud(instrument, o, volume)))
<1> DEFINE level == Loud(instrument, o, volume)
           set(q, b) == setOperatorRegister(q, b, c, o, Packed(level, b))
           r1 == set(r, 32)
           r2 == set(r1, 64)
           r3 == set(r2, 96)
           r4 == set(r3, 128)
           r5 == set(r4, 224)
<1>1. level \in Level
  BY LoudIs
<1>2. setOperatorInstrument(r, c, o, instrument, volume) = r5
  BY DEF setOperatorInstrument, Loud
<1> HIDE DEF level
<1>3. Did(r, r, LevelsOf({}, c, o, level))
  BY DEF Did, LevelsOf, Of
<1>4. Did(r, r1, LevelsOf({32}, c, o, level))
  <2>1. 32 \in OperatorBases /\ {} \cup {32} = {32}
    BY DEF OperatorBases
  <2>2. Did(r, r1, LevelsOf({} \cup {32}, c, o, level))
    BY <1>1, <1>3, <2>1, SetsOperatorBase
  <2> QED  BY <2>1, <2>2
<1> HIDE DEF r1
<1>5. Did(r, r2, LevelsOf({32, 64}, c, o, level))
  <2>1. 64 \in OperatorBases /\ {32} \cup {64} = {32, 64}
    BY DEF OperatorBases
  <2>2. Did(r, r2, LevelsOf({32} \cup {64}, c, o, level))
    BY <1>1, <1>4, <2>1, SetsOperatorBase
  <2> QED  BY <2>1, <2>2
<1> HIDE DEF r2
<1>6. Did(r, r3, LevelsOf({32, 64, 96}, c, o, level))
  <2>1. 96 \in OperatorBases /\ {32, 64} \cup {96} = {32, 64, 96}
    BY DEF OperatorBases
  <2>2. Did(r, r3, LevelsOf({32, 64} \cup {96}, c, o, level))
    BY <1>1, <1>5, <2>1, SetsOperatorBase
  <2> QED  BY <2>1, <2>2
<1> HIDE DEF r3
<1>7. Did(r, r4, LevelsOf({32, 64, 96, 128}, c, o, level))
  <2>1. 128 \in OperatorBases /\ {32, 64, 96} \cup {128} = {32, 64, 96, 128}
    BY DEF OperatorBases
  <2>2. Did(r, r4, LevelsOf({32, 64, 96} \cup {128}, c, o, level))
    BY <1>1, <1>6, <2>1, SetsOperatorBase
  <2> QED  BY <2>1, <2>2
<1> HIDE DEF r4
<1>8. Did(r, r5, LevelsOf(OperatorBases, c, o, level))
  <2>1. 224 \in OperatorBases /\ {32, 64, 96, 128} \cup {224} = OperatorBases
    BY DEF OperatorBases
  <2>2. Did(r, r5, LevelsOf({32, 64, 96, 128} \cup {224}, c, o, level))
    BY <1>1, <1>7, <2>1, SetsOperatorBase
  <2> QED  BY <2>1, <2>2
<1> QED  BY <1>2, <1>8 DEF level

LEMMA Unpacked ==
  ASSUME NEW data \in [1..11 -> 0..255]
  PROVE  Instrument(loadInstrument(data))
<1> DEFINE instrument == loadInstrument(data)
           reg(o, b) == data[(o * 5) + (b \div 32) + 1]
<1>1. \A i \in 1..11 : data[i] \in Byte
  BY DEF Byte
<1>2. /\ data[11] & 7 \in 0..7 /\ (data[11] & 112) \div 16 \in 0..7
      /\ (data[6] & 14) \div 2 \in 0..7 /\ data[6] & 1 \in 0..1
  <2>1. PICK a \in BitsOf : data[11] = AsByte(a)
    BY <1>1, HasBits
  <2>2. PICK b \in BitsOf : data[6] = AsByte(b)
    BY <1>1, HasBits, SMTT(30)
  <2>3. /\ data[11] & 7 = a[0] + 2 * a[1] + 4 * a[2]
        /\ data[11] & 112 = 16 * a[4] + 32 * a[5] + 64 * a[6]
        /\ data[6] & 14 = 2 * b[1] + 4 * b[2] + 8 * b[3] /\ data[6] & 1 = b[0]
        /\ \A i \in 0..7 : a[i] \in 0..1 /\ b[i] \in 0..1
    BY <2>1, <2>2, Masked, BitAt, SMTT(30)
  <2> QED  BY <2>3
<1>3. ASSUME NEW o \in Operators, NEW f \in OperatorFieldNames, OperatorFields(f).base = 224
      PROVE  /\ instrument.operators[o][f] \in Byte
             /\ instrument.operators[o][f] & OperatorFields(f).low = instrument.operators[o][f]
  <2>1. f = "WaveForm" /\ OperatorFields(f).low = 7
    BY <1>3, OperatorFieldsAre DEF Field
  <2>2. instrument.operators[o][f] \in 0..7
    BY <1>2, <1>3 DEF loadInstrument
  <2> QED  BY <2>1, <2>2, LowKept DEF Byte
<1>4. ASSUME NEW o \in Operators, NEW f \in OperatorFieldNames, OperatorFields(f).base # 224
      PROVE  /\ instrument.operators[o][f] \in Byte
             /\ instrument.operators[o][f] & OperatorFields(f).low = instrument.operators[o][f]
  <2>1. OperatorFields(f).base \in {32, 64, 96, 128} /\ PutsItsBits(OperatorFields(f))
    BY <1>4, OperatorTablesFit
  <2>2. (o * 5) + (OperatorFields(f).base \div 32) + 1 \in 1..11
    BY <2>1 DEF Operators, OPERATOR1, OPERATOR2
  <2>3. reg(o, OperatorFields(f).base) \in Byte
    BY <1>1, <2>2
  <2> HIDE DEF reg
  <2>4. instrument.operators[o][f] = Take(reg(o, OperatorFields(f).base), OperatorFields(f))
    BY <1>4 DEF loadInstrument, reg
  <2> QED  BY <2>1, <2>3, <2>4, TakeFits
<1>5. instrument.operators \in [Operators -> Level]
  <2>1. \A o \in Operators, f \in OperatorFieldNames : instrument.operators[o][f] \in Byte
    BY <1>3, <1>4
  <2>2. \A o \in Operators : instrument.operators[o] = [f \in OperatorFieldNames |-> instrument.operators[o][f]]
    BY DEF loadInstrument
  <2>3. instrument.operators = [o \in Operators |-> instrument.operators[o]]
    BY DEF loadInstrument
  <2> HIDE DEF instrument
  <2>4. ASSUME NEW o \in Operators  PROVE instrument.operators[o] \in Level
    <3> DEFINE g == instrument.operators[o]
    <3>1. g = [f \in OperatorFieldNames |-> g[f]] /\ \A f \in OperatorFieldNames : g[f] \in Byte
      BY <2>1, <2>2
    <3> HIDE DEF g
    <3>2. g \in Level
      BY <3>1 DEF Level
    <3> QED  BY <3>2 DEF g
  <2> DEFINE levels == instrument.operators
  <2>5. levels = [o \in Operators |-> levels[o]] /\ \A o \in Operators : levels[o] \in Level
    BY <2>3, <2>4
  <2> HIDE DEF levels
  <2>6. levels \in [Operators -> Level]
    BY <2>5
  <2> QED  BY <2>6 DEF levels
<1>6. instrument.feedback \in 0..7 /\ instrument.isAdditiveSynth \in 0..1
  BY <1>2 DEF loadInstrument
<1> HIDE DEF instrument
<1>7. Instrument(instrument)
  BY <1>3, <1>4, <1>5, <1>6 DEF Instrument
<1> QED  BY <1>7 DEF instrument

(* The register with feedback and synth mode is put together too.          *)
FeedbackAndMode(c, instrument) ==
  <<"Feedback", c>> :> instrument.feedback @@ <<"SynthMode", c>> :> instrument.isAdditiveSynth

LEMMA SetsFeedbackAndMode ==
  ASSUME NEW r, Good(r), NEW c \in Channels, NEW instrument, Instrument(instrument)
  PROVE  Did(r, setFeedbackAndMode(r, c, instrument), FeedbackAndMode(c, instrument))
<1> DEFINE x == getChannelRegister(r, 192, c)
           y == (x & 240) + InPlace(FieldsBC["Feedback"], instrument.feedback) + instrument.isAdditiveSynth
           s == setFeedbackAndMode(r, c, instrument)
           A == FeedbackAndMode(c, instrument)
           fb == instrument.feedback
           mode == instrument.isAdditiveSynth
           FB == <<"Feedback", c>>
           SM == <<"SynthMode", c>>
<1>1. fb \in 0..7 /\ mode \in 0..1
  BY DEF Instrument
<1>2. FieldsBC["Feedback"] = Field(192, 241, 7, 1, 14) /\ FieldsBC["SynthMode"] = Field(192, 254, 1, 0, 1)
  BY DEF FieldsBC
<1>3. /\ "Feedback" \in ChannelNames /\ ChannelField("Feedback") = FieldsBC["Feedback"]
      /\ "SynthMode" \in ChannelNames /\ ChannelField("SynthMode") = FieldsBC["SynthMode"]
  BY DEF FieldsBC, ChannelNames, ChannelField
<1>4. /\ FB \in Ids /\ What(FB) = FieldsBC["Feedback"] /\ Where(FB) = 192 + c
      /\ SM \in Ids /\ What(SM) = FieldsBC["SynthMode"] /\ Where(SM) = 192 + c
  BY <1>2, <1>3, ChannelId DEF Field
<1>5. x \in Byte /\ 192 \in ChannelBases
  BY ChannelByte DEF ChannelBases
<1>6. y \in Byte /\ y & 14 = 2 * fb /\ y & 1 = mode
  <2>1. PICK a \in BitsOf : x = AsByte(a)
    BY <1>5, HasBits
  <2>2. PICK b \in BitsOf : fb = AsByte(b)
    BY <1>1, HasBits DEF Byte
  <2>3. /\ x & 240 = 16 * a[4] + 32 * a[5] + 64 * a[6] + 128 * a[7]
        /\ \A i \in 0..7 : a[i] \in 0..1 /\ b[i] \in 0..1
    BY <2>1, Masked, BitAt
  <2>4. fb = b[0] + 2 * b[1] + 4 * b[2]
    BY <1>1, <2>2, <2>3, SMTT(30) DEF AsByte
  <2>5. InPlace(FieldsBC["Feedback"], fb) = 2 * fb
    <3>1. FieldsBC["Feedback"].low = 7 /\ FieldsBC["Feedback"].shift = 1 /\ fb & 7 = fb
      BY <1>1, <1>2, LowKept DEF Field
    <3> HIDE DEF fb
    <3> QED  BY <1>1, <3>1, WeightsAre DEF InPlace
  <2> DEFINE z == [i \in 0..7 |-> CASE i = 0 -> mode [] i = 1 -> b[0] [] i = 2 -> b[1] [] i = 3 -> b[2]
                                    [] i = 4 -> a[4] [] i = 5 -> a[5] [] i = 6 -> a[6] [] i = 7 -> a[7]]
  <2>6. /\ z[0] = mode /\ z[1] = b[0] /\ z[2] = b[1] /\ z[3] = b[2]
        /\ z[4] = a[4] /\ z[5] = a[5] /\ z[6] = a[6] /\ z[7] = a[7]
    OBVIOUS
  <2>7. z \in BitsOf
    BY <1>1, <2>3 DEF BitsOf
  <2> HIDE DEF z, x, fb, mode
  <2>8. y = AsByte(z)
    BY <1>1, <2>3, <2>4, <2>5, <2>6 DEF AsByte, fb, mode
  <2> HIDE DEF y
  <2>9. y \in Byte
    BY <2>7, <2>8, BitAt
  <2>10. y & 14 = 2 * z[1] + 4 * z[2] + 8 * z[3] /\ y & 1 = z[0]
    BY <2>7, <2>8, Masked
  <2> QED  BY <1>1, <2>3, <2>4, <2>6, <2>9, <2>10
<1>7. Take(y, FieldsBC["Feedback"]) = fb /\ Take(y, FieldsBC["SynthMode"]) = mode
  <2>1. /\ FieldsBC["Feedback"].take = 14 /\ FieldsBC["Feedback"].shift = 1
        /\ FieldsBC["SynthMode"].take = 1 /\ FieldsBC["SynthMode"].shift = 0
    BY <1>2 DEF Field
  <2> HIDE DEF y, fb, mode
  <2> QED  BY <1>1, <1>6, <2>1, WeightsAre DEF Take
<1>8. Wrote(r, s, 192 + c, y) /\ Good(s)
  <2>1. s = setChannelRegister(r, 192, c, y)
    BY DEF setFeedbackAndMode
  <2> HIDE DEF y, s
  <2>2. Wrote(r, s, 192 + c, y)
    BY <1>5, <1>6, <2>1, SetChannelRegister
  <2> QED  BY <2>2 DEF Wrote
<1>9. ASSUME NEW id \in Ids, Where(id) = 192 + c  PROVE id = FB \/ id = SM
  <2>1. PICK f \in ChannelNames, d \in Channels : id = <<f, d>>
    <3>1. ASSUME NEW g \in OperatorFieldNames, NEW d \in Channels, NEW p \in Operators, id = <<g, d, p>>
          PROVE  FALSE
      BY <1>5, <1>9, <3>1, OperatorId, AddressesDiffer
    <3>2. ASSUME NEW g \in DOMAIN ChipFields, id = <<g>>  PROVE FALSE
      BY <1>5, <1>9, <3>2, ChipId, AddressesDiffer DEF ChipAddresses
    <3> QED  BY <3>1, <3>2, IdIs
  <2>2. ChannelField(f).base = 192 /\ d = c
    BY <1>5, <1>9, <2>1, ChannelId, AddressesDiffer
  <2>3. f = "Feedback" \/ f = "SynthMode"
    BY <2>2 DEF ChannelNames, ChannelField, FieldsBC, High, Low, Field
  <2> QED  BY <2>1, <2>2, <2>3
<1>10. DOMAIN A = {FB, SM} /\ A[FB] = fb /\ A[SM] = mode
  <2>1. FB # SM
    OBVIOUS
  <2> QED  BY <2>1 DEF FeedbackAndMode, :>, @@
<1>11. 192 + c \in Addresses
  BY <1>5, AddressesDiffer
<1> HIDE DEF y, s, A, fb, mode, FB, SM
<1>12. \A id \in Ids : Val(s, id) = IF Where(id) = 192 + c THEN Take(y, What(id)) ELSE Val(r, id)
  BY <1>8, <1>11, WroteIs
<1>13. ASSUME NEW id \in Ids  PROVE Val(s, id) = IF id \in DOMAIN A THEN A[id] ELSE Val(r, id)
  BY <1>4, <1>7, <1>9, <1>10, <1>12
<1> QED  BY <1>4, <1>8, <1>10, <1>13 DEF Did, A, s

(* The wave forms are switched on, then the operators in ops set, then     *)
(* feedback and mode.                                                      *)
LEMMA InstrumentDone ==
  ASSUME NEW r, NEW w, NEW s1, NEW s2, NEW s, NEW c \in Channels, NEW ops \in SUBSET Operators,
         NEW instrument, Instrument(instrument), NEW volume \in Volumes,
         Did(r, w, <<"WaveFormSelect">> :> 1),
         s1 = IF OPERATOR1 \in ops THEN setOperatorInstrument(w, c, OPERATOR1, instrument, volume) ELSE w,
         s2 = IF OPERATOR2 \in ops THEN setOperatorInstrument(s1, c, OPERATOR2, instrument, volume) ELSE s1,
         s = setFeedbackAndMode(s2, c, instrument)
  PROVE  Did(r, s, InstrumentFields(c, ops, instrument, volume))
<1> DEFINE L(o) == LevelsOf(OperatorBases, c, o, Loud(instrument, o, volume))
           N(o) == [id \in {} |-> 0]
           A0 == <<"WaveFormSelect">> :> 1
           A1 == (IF OPERATOR1 \in ops THEN L(OPERATOR1) ELSE NothingAsked) @@ A0
           A2 == (IF OPERATOR2 \in ops THEN L(OPERATOR2) ELSE NothingAsked) @@ A1
           A3 == FeedbackAndMode(c, instrument) @@ A2
           A == InstrumentFields(c, ops, instrument, volume)
<1>1. OPERATOR1 \in Operators /\ OPERATOR2 \in Operators
  BY DEF Operators
<1>2. ASSUME NEW q, Good(q)  PROVE Did(q, q, NothingAsked)
  BY <1>2 DEF Did, NothingAsked
<1>3. Did(w, s1, IF OPERATOR1 \in ops THEN L(OPERATOR1) ELSE NothingAsked)
  <2>1. Good(w)
    BY DEF Did
  <2> QED  BY <1>1, <1>2, <2>1, SetsOperatorInstrument
<1>4. Did(r, s1, A1)
  BY <1>3, DidBoth
<1>5. Did(s1, s2, IF OPERATOR2 \in ops THEN L(OPERATOR2) ELSE NothingAsked)
  <2>1. Good(s1)
    BY <1>3 DEF Did
  <2> QED  BY <1>1, <1>2, <2>1, SetsOperatorInstrument
<1> HIDE DEF A1
<1>6. Did(r, s2, A2)
  BY <1>4, <1>5, DidBoth
<1> HIDE DEF A2
<1>7. Did(r, s, A3)
  <2>1. Did(s2, s, FeedbackAndMode(c, instrument))
    BY <1>6, SetsFeedbackAndMode DEF Did
  <2> QED  BY <1>6, <2>1, DidBoth
<1> DEFINE O == {<<f, c, o>> : f \in OperatorFieldNames, o \in ops}
           fm == {<<"Feedback", c>>, <<"SynthMode", c>>}
<1>8. /\ DOMAIN A = O \cup fm \cup {<<"WaveFormSelect">>}
      /\ \A f \in OperatorFieldNames, o \in ops :
           A[<<f, c, o>>] = IF f = "Volume" THEN OutputLevel(instrument.operators[o]["Volume"], volume)
                                            ELSE instrument.operators[o][f]
      /\ A[<<"Feedback", c>>] = instrument.feedback /\ A[<<"SynthMode", c>>] = instrument.isAdditiveSynth
      /\ A[<<"WaveFormSelect">>] = 1
  <2> DEFINE I == [id \in O |-> IF id[1] = "Volume"
                                   THEN OutputLevel(instrument.operators[id[3]]["Volume"], volume)
                                   ELSE instrument.operators[id[3]][id[1]]]
             F1 == <<"Feedback", c>> :> instrument.feedback
             F2 == <<"SynthMode", c>> :> instrument.isAdditiveSynth
  <2>1. A = ((I @@ F1) @@ F2) @@ A0
    BY DEF InstrumentFields
  <2>2. /\ DOMAIN I = O /\ DOMAIN F1 = {<<"Feedback", c>>} /\ DOMAIN F2 = {<<"SynthMode", c>>}
        /\ DOMAIN A0 = {<<"WaveFormSelect">>}
        /\ F1[<<"Feedback", c>>] = instrument.feedback /\ F2[<<"SynthMode", c>>] = instrument.isAdditiveSynth
        /\ A0[<<"WaveFormSelect">>] = 1
    BY DEF :>
  <2>3. \A f \in OperatorFieldNames, o \in ops :
          /\ <<f, c, o>> \in O
          /\ I[<<f, c, o>>] = IF f = "Volume" THEN OutputLevel(instrument.operators[o]["Volume"], volume)
                                              ELSE instrument.operators[o][f]
    OBVIOUS
  <2>4. /\ <<"Feedback", c>> \notin O /\ <<"SynthMode", c>> \notin O /\ <<"WaveFormSelect">> \notin O
        /\ <<"SynthMode", c>> # <<"Feedback", c>> /\ <<"WaveFormSelect">> # <<"Feedback", c>>
        /\ <<"WaveFormSelect">> # <<"SynthMode", c>>
    OBVIOUS
  <2> HIDE DEF I, F1, F2, A0, A, O
  <2>5. DOMAIN (I @@ F1) = O \cup {<<"Feedback", c>>}
    BY <2>2 DEF @@
  <2>6. DOMAIN ((I @@ F1) @@ F2) = O \cup fm
    BY <2>2, <2>5 DEF @@
  <2>7. DOMAIN A = O \cup fm \cup {<<"WaveFormSelect">>}
    BY <2>1, <2>2, <2>6 DEF @@
  <2>8. /\ \A id \in O : A[id] = I[id]
        /\ A[<<"Feedback", c>>] = F1[<<"Feedback", c>>] /\ A[<<"SynthMode", c>>] = F2[<<"SynthMode", c>>]
        /\ A[<<"WaveFormSelect">>] = A0[<<"WaveFormSelect">>]
    BY <2>1, <2>2, <2>4, <2>5, <2>6 DEF @@
  <2> QED  BY <2>2, <2>3, <2>7, <2>8
<1>9. ASSUME NEW o \in ops
      PROVE  /\ DOMAIN L(o) = {<<f, c, o>> : f \in OperatorFieldNames}
             /\ \A f \in OperatorFieldNames : L(o)[<<f, c, o>>] = A[<<f, c, o>>]
  <2>1. Of(OperatorBases, c, o) = {<<f, c, o>> : f \in OperatorFieldNames}
    BY OperatorTablesFit DEF Of, OperatorBases
  <2>2. \A f \in OperatorFieldNames :
          L(o)[<<f, c, o>>] = Loud(instrument, o, volume)[f] & OperatorFields(f).low
    BY <2>1 DEF LevelsOf
  <2>3. \A f \in OperatorFieldNames :
              /\ Loud(instrument, o, volume)[f] & OperatorFields(f).low = Loud(instrument, o, volume)[f]
              /\ Loud(instrument, o, volume)[f] =
                   IF f = "Volume" THEN OutputLevel(instrument.operators[o]["Volume"], volume)
                                   ELSE instrument.operators[o][f]
    BY LoudIs
  <2> HIDE DEF A
  <2> QED  BY <1>8, <2>1, <2>2, <2>3 DEF LevelsOf
<1> HIDE DEF A, L
<1> DEFINE part(o) == {<<f, c, p>> : f \in OperatorFieldNames, p \in ops \cap {o}}
<1>14. ASSUME NEW o \in Operators, NEW K, K = IF o \in ops THEN L(o) ELSE NothingAsked
       PROVE  /\ DOMAIN K = part(o)
              /\ \A id \in DOMAIN K : K[id] = A[id]
  <2>1. CASE o \in ops
    <3>1. ops \cap {o} = {o} /\ K = L(o)
      BY <1>14, <2>1
    <3>2. /\ DOMAIN K = {<<f, c, o>> : f \in OperatorFieldNames}
          /\ \A f \in OperatorFieldNames : K[<<f, c, o>>] = A[<<f, c, o>>]
      BY <1>9, <2>1, <3>1
    <3>3. {<<f, c, p>> : f \in OperatorFieldNames, p \in {o}} = {<<f, c, o>> : f \in OperatorFieldNames}
      OBVIOUS
    <3> QED  BY <3>1, <3>2, <3>3
  <2>2. CASE o \notin ops
    <3>1. ops \cap {o} = {} /\ DOMAIN K = {}
      BY <1>14, <2>2 DEF NothingAsked
    <3> QED  BY <3>1
  <2> QED  BY <2>1, <2>2
<1> HIDE DEF part
<1>10. /\ DOMAIN A1 = part(OPERATOR1) \cup {<<"WaveFormSelect">>}
       /\ \A id \in DOMAIN A1 : A1[id] = A[id]
  <2>1. DOMAIN A0 = {<<"WaveFormSelect">>} /\ A0[<<"WaveFormSelect">>] = 1 /\ DOMAIN NothingAsked = {}
    BY DEF :>, NothingAsked
  <2> DEFINE K == IF OPERATOR1 \in ops THEN L(OPERATOR1) ELSE NothingAsked
  <2>2. /\ DOMAIN K = part(OPERATOR1)
        /\ \A id \in DOMAIN K : K[id] = A[id]
    <3>1. OPERATOR1 \in Operators /\ K = IF OPERATOR1 \in ops THEN L(OPERATOR1) ELSE NothingAsked
      BY <1>1
    <3> HIDE DEF K
    <3> QED  BY <3>1, <1>14
  <2> HIDE DEF K, A0
  <2>3. A1 = K @@ A0
    BY DEF A1, K, A0
  <2> QED  BY <1>8, <2>1, <2>2, <2>3 DEF @@
<1>11. DOMAIN A2 = O \cup {<<"WaveFormSelect">>} /\ \A id \in DOMAIN A2 : A2[id] = A[id]
  <2> DEFINE K == IF OPERATOR2 \in ops THEN L(OPERATOR2) ELSE NothingAsked
  <2>1. DOMAIN NothingAsked = {}
    BY DEF NothingAsked
  <2>2. /\ DOMAIN K = part(OPERATOR2)
        /\ \A id \in DOMAIN K : K[id] = A[id]
    <3>1. OPERATOR2 \in Operators /\ K = IF OPERATOR2 \in ops THEN L(OPERATOR2) ELSE NothingAsked
      BY <1>1
    <3> HIDE DEF K
    <3> QED  BY <3>1, <1>14
  <2> HIDE DEF K
  <2>3. A2 = K @@ A1
    BY DEF A2, K
  <2>4. DOMAIN A2 = DOMAIN K \cup DOMAIN A1 /\ \A id \in DOMAIN A2 : A2[id] = A[id]
    BY <1>10, <2>2, <2>3 DEF @@
  <2>5. ops = (ops \cap {OPERATOR1}) \cup (ops \cap {OPERATOR2})
    BY DEF Operators
  <2>6. O = part(OPERATOR1) \cup part(OPERATOR2)
    BY <2>5 DEF part
  <2> HIDE DEF O
  <2> QED  BY <1>10, <2>2, <2>4, <2>6
<1>12. DOMAIN A3 = DOMAIN A /\ \A id \in DOMAIN A3 : A3[id] = A[id]
  <2> DEFINE K == FeedbackAndMode(c, instrument)
  <2>1. <<"Feedback", c>> # <<"SynthMode", c>>
    OBVIOUS
  <2>2. DOMAIN K = fm /\ \A id \in DOMAIN K : K[id] = A[id]
    BY <1>8, <2>1 DEF FeedbackAndMode, :>, @@
  <2> HIDE DEF K
  <2>3. A3 = K @@ A2
    BY DEF A3, K
  <2>4. DOMAIN A3 = DOMAIN K \cup DOMAIN A2 /\ \A id \in DOMAIN A3 : A3[id] = A[id]
    BY <1>11, <2>2, <2>3 DEF @@
  <2> QED  BY <1>8, <1>11, <2>2, <2>4
<1> HIDE DEF A3
<1>13. Did(r, s, A)
  BY <1>7, <1>12, DidSame
<1> QED  BY <1>13 DEF A

LEMMA WaveFormsOn ==
  ASSUME NEW r, Good(r)
  PROVE  Did(r, setChipField(r, "WaveFormSelect", 1), <<"WaveFormSelect">> :> 1)
<1>1. "WaveFormSelect" \in DOMAIN ChipFields /\ ChipFields["WaveFormSelect"].low = 1 /\ 1 \in Byte
  BY DEF ChipFields, Field, Byte
<1>2. 1 & 1 = 1
  BY LowKept
<1> QED  BY <1>1, <1>2, SetsChipField

LEMMA SetsInstrument ==
  ASSUME NEW r, Good(r), NEW c \in Channels, NEW instrument, Instrument(instrument), NEW volume \in Volumes
  PROVE  Did(r, setInstrument(r, c, instrument, volume), InstrumentFields(c, Operators, instrument, volume))
<1> DEFINE w == setChipField(r, "WaveFormSelect", 1)
           s1 == setOperatorInstrument(w, c, OPERATOR1, instrument, volume)
           s2 == setOperatorInstrument(s1, c, OPERATOR2, instrument, volume)
           s == setFeedbackAndMode(s2, c, instrument)
<1>1. setInstrument(r, c, instrument, volume) = s
  BY DEF setInstrument
<1>2. Did(r, w, <<"WaveFormSelect">> :> 1)
  BY WaveFormsOn
<1>3. OPERATOR1 \in Operators /\ OPERATOR2 \in Operators /\ Operators \in SUBSET Operators
  BY DEF Operators
<1> HIDE DEF w
<1>4. /\ s1 = IF OPERATOR1 \in Operators THEN setOperatorInstrument(w, c, OPERATOR1, instrument, volume) ELSE w
      /\ s2 = IF OPERATOR2 \in Operators THEN setOperatorInstrument(s1, c, OPERATOR2, instrument, volume) ELSE s1
      /\ s = setFeedbackAndMode(s2, c, instrument)
  BY <1>3
<1> HIDE DEF s1, s2, s
<1>5. Did(r, s, InstrumentFields(c, Operators, instrument, volume))
  BY <1>2, <1>3, <1>4, InstrumentDone
<1> QED  BY <1>1, <1>5

LEMMA DrumsAre ==
  ASSUME NEW d \in 0..4
  PROVE  /\ drumChannels[d + 1] \in Channels /\ drumBits[d + 1] \in {16, 8, 4, 2, 1}
         /\ drumOperators[d + 1] \in SUBSET Operators
         /\ clampValue(d, 0, 4) = d /\ d % 5 = d
BY DEF drumChannels, drumBits, drumOperators, Channels, Operators, OPERATOR1, OPERATOR2, clampValue

LEMMA SetsDrumInstrument ==
  ASSUME NEW r, Good(r), NEW d \in 0..4, NEW instrument, Instrument(instrument), NEW volume \in Volumes
  PROVE  Did(r, setDrumInstrument(r, instrument, d, volume),
             InstrumentFields(drumChannels[d + 1], drumOperators[d + 1], instrument, volume))
<1> DEFINE c == drumChannels[d + 1]
           ops == drumOperators[d + 1]
           w == setChipField(r, "WaveFormSelect", 1)
           s1 == IF OPERATOR1 \in ops THEN setOperatorInstrument(w, c, OPERATOR1, instrument, volume) ELSE w
           s2 == IF OPERATOR2 \in ops THEN setOperatorInstrument(s1, c, OPERATOR2, instrument, volume) ELSE s1
           s == setFeedbackAndMode(s2, c, instrument)
<1>1. setDrumInstrument(r, instrument, d, volume) = s
  BY DrumsAre DEF setDrumInstrument
<1>2. Did(r, w, <<"WaveFormSelect">> :> 1)
  BY WaveFormsOn
<1>3. c \in Channels /\ ops \in SUBSET Operators
  BY DrumsAre
<1> HIDE DEF w, c, ops
<1>4. Did(r, s, InstrumentFields(c, ops, instrument, volume))
  <2>1. /\ s1 = IF OPERATOR1 \in ops THEN setOperatorInstrument(w, c, OPERATOR1, instrument, volume) ELSE w
        /\ s2 = IF OPERATOR2 \in ops THEN setOperatorInstrument(s1, c, OPERATOR2, instrument, volume) ELSE s1
        /\ s = setFeedbackAndMode(s2, c, instrument)
    BY SMTT(30)
  <2> HIDE DEF s1, s2, s
  <2> QED  BY <1>2, <1>3, <2>1, InstrumentDone
<1> QED  BY <1>1, <1>4 DEF c, ops
-----------------------------------------------------------------------------
(* The calls made of several setters.                                      *)
LEMMA AndIsByte ==
  ASSUME NEW x \in Byte, NEW y
  PROVE  x & y \in Byte
<1>1. PICK b \in BitsOf : x = AsByte(b)
  BY HasBits
<1> DEFINE bit(i, w) == IF b[i] = 1 /\ (y \div w) % 2 = 1 THEN w ELSE 0
<1>2. x & y = bit(0, 1) + bit(1, 2) + bit(2, 4) + bit(3, 8) + bit(4, 16) + bit(5, 32) + bit(6, 64) + bit(7, 128)
  BY <1>1, BitAt DEF &
<1> QED  BY <1>2 DEF Byte

LEMMA OrFits ==
  ASSUME NEW x \in 0..31, NEW y \in {16, 8, 4, 2, 1}
  PROVE  x | y \in 0..31
<1>1. x \in Byte
  BY DEF Byte
<1>2. PICK b \in BitsOf : x = AsByte(b)
  BY <1>1, HasBits
<1>3. /\ x & 16 = 16 * b[4] /\ x & 8 = 8 * b[3] /\ x & 4 = 4 * b[2] /\ x & 2 = 2 * b[1] /\ x & 1 = b[0]
      /\ \A i \in 0..7 : b[i] \in 0..1
  <2>1. \A i \in 0..7 : b[i] \in 0..1
    BY BitAt
  <2>2. /\ AsByte(b) & 16 = 16 * b[4] /\ AsByte(b) & 8 = 8 * b[3] /\ AsByte(b) & 4 = 4 * b[2]
        /\ AsByte(b) & 2 = 2 * b[1] /\ AsByte(b) & 1 = b[0]
    BY Masked
  <2> QED  BY <1>2, <2>1, <2>2
<1>4. x = b[0] + 2 * b[1] + 4 * b[2] + 8 * b[3] + 16 * b[4]
  BY <1>2, <1>3 DEF AsByte
<1>5. x | y = x + y - (x & y)
  BY DEF |
<1>6. /\ b[0] \in 0..1 /\ b[1] \in 0..1 /\ b[2] \in 0..1 /\ b[3] \in 0..1 /\ b[4] \in 0..1
  BY <1>3
<1>7. CASE y = 16
  BY <1>3, <1>4, <1>5, <1>6, <1>7
<1>8. CASE y = 8
  BY <1>3, <1>4, <1>5, <1>6, <1>8
<1>9. CASE y = 4
  BY <1>3, <1>4, <1>5, <1>6, <1>9
<1>10. CASE y = 2
  BY <1>3, <1>4, <1>5, <1>6, <1>10
<1>11. CASE y = 1
  BY <1>3, <1>4, <1>5, <1>6, <1>11
<1> QED  BY <1>7, <1>8, <1>9, <1>10, <1>11

LEMMA SetsDrums ==
  ASSUME NEW r, Good(r), NEW v \in Byte
  PROVE  Did(r, setDrums(r, v), <<"Drums">> :> (v & 31))
<1> DEFINE q == setChipField(r, "Drums", 0)
           s == setChipField(q, "Drums", v)
           id == <<"Drums">>
<1>1. "Drums" \in DOMAIN ChipFields /\ ChipFields["Drums"].low = 31 /\ 0 \in Byte
  BY DEF ChipFields, Field, Byte
<1>2. Did(r, q, id :> (0 & 31))
  BY <1>1, SetsChipField
<1> HIDE DEF q
<1>3. Did(q, s, id :> (v & 31))
  <2>1. Good(q)
    BY <1>2 DEF Did
  <2> QED  BY <1>1, <2>1, SetsChipField
<1> HIDE DEF s
<1>4. Did(r, s, id :> (v & 31) @@ id :> (0 & 31))
  BY <1>2, <1>3, DidBoth
<1>5. Did(r, s, id :> (v & 31))
  <2> DEFINE A == id :> (v & 31) @@ id :> (0 & 31)
             B == id :> (v & 31)
  <2>1. DOMAIN A = DOMAIN B /\ \A i \in DOMAIN A : A[i] = B[i]
    BY DEF :>, @@
  <2> HIDE DEF A, B
  <2>2. Did(r, s, A)
    BY <1>4 DEF A
  <2> QED  BY <2>1, <2>2, DidSame DEF B
<1> QED  BY <1>5 DEF setDrums, q, s

(* The value of a field fits the field.                                    *)
LEMMA ValFits ==
  ASSUME NEW r, Good(r), NEW id \in Ids, id # <<"NoteSelect">>
  PROVE  Val(r, id) \in Byte /\ Val(r, id) & What(id).low = Val(r, id)
<1>1. PutsItsBits(What(id)) /\ Where(id) \in Addresses /\ r.chip[Where(id)] \in Byte
  BY InChip DEF Good, Drivers
<1> QED  BY <1>1, TakeFits DEF Val

LEMMA SetsChannelVolume ==
  ASSUME NEW r, Good(r), NEW c \in Channels, NEW v \in Byte
  PROVE  Did(r, setChannelVolume(r, c, v),
             [id \in {<<"Volume", c, o>> : o \in IF getChannelField(r, "SynthMode", c) = 1
                                                   THEN Operators ELSE {OPERATOR2}} |-> v & 63])
<1> DEFINE mode == getChannelField(r, "SynthMode", c)
           ops == IF mode = 1 THEN Operators ELSE {OPERATOR2}
           V(o) == <<"Volume", c, o>>
           A == [id \in {V(o) : o \in ops} |-> v & 63]
           r1 == IF mode # 0 THEN setOperatorField(r, "Volume", c, OPERATOR1, v) ELSE r
           s == setOperatorField(r1, "Volume", c, OPERATOR2, v)
           A1 == IF mode # 0 THEN V(OPERATOR1) :> (v & 63) ELSE NothingAsked
           A2 == V(OPERATOR2) :> (v & 63)
<1>1. mode \in 0..1
  <2>1. "SynthMode" \in ChannelNames /\ "SynthMode" \in DOMAIN FieldsBC /\ ChannelField("SynthMode").low = 1
    BY DEF ChannelNames, ChannelField, FieldsBC, Field
  <2>2. <<"SynthMode", c>> \in Ids /\ What(<<"SynthMode", c>>).low = 1 /\ <<"SynthMode", c>> # <<"NoteSelect">>
    BY <2>1, ChannelId
  <2>3. mode = Val(r, <<"SynthMode", c>>)
    BY <2>1, Getters
  <2>4. mode \in Byte /\ mode & 1 = mode
    BY <2>2, <2>3, ValFits
  <2> HIDE DEF mode
  <2> QED  BY <2>4, LowKept
<1>2. /\ "Volume" \in OperatorFieldNames /\ OperatorFields("Volume").low = 63
      /\ OPERATOR1 \in Operators /\ OPERATOR2 \in Operators
  BY OperatorFieldsAre DEF Field, Operators
<1> HIDE DEF mode
<1>3. Did(r, r1, A1)
  <2>1. CASE mode # 0
    BY <1>2, <2>1, SetsOperatorField
  <2>2. CASE mode = 0
    BY <2>2 DEF Did, NothingAsked
  <2> QED  BY <2>1, <2>2
<1> HIDE DEF r1
<1>4. Did(r1, s, A2)
  <2>1. Good(r1)
    BY <1>3 DEF Did
  <2> QED  BY <1>2, <2>1, SetsOperatorField
<1>5. Did(r, s, A2 @@ A1)
  BY <1>3, <1>4, DidBoth
<1>6. DOMAIN (A2 @@ A1) = DOMAIN A /\ \A id \in DOMAIN (A2 @@ A1) : (A2 @@ A1)[id] = A[id]
  <2>1. /\ DOMAIN A2 = {V(OPERATOR2)} /\ A2[V(OPERATOR2)] = v & 63
        /\ DOMAIN A1 = (IF mode # 0 THEN {V(OPERATOR1)} ELSE {})
        /\ \A id \in DOMAIN A1 : A1[id] = v & 63
    BY DEF :>, NothingAsked
  <2>2. DOMAIN A = {V(OPERATOR2)} \cup (IF mode # 0 THEN {V(OPERATOR1)} ELSE {})
    <3>1. CASE mode = 1
      <4>1. {V(o) : o \in Operators} = {V(OPERATOR2)} \cup {V(OPERATOR1)}
        BY DEF Operators
      <4> QED  BY <3>1, <4>1
    <3>2. CASE mode = 0
      BY <3>2
    <3> QED  BY <1>1, <3>1, <3>2
  <2>3. \A id \in DOMAIN A : A[id] = v & 63
    OBVIOUS
  <2> HIDE DEF A, A1, A2, V
  <2> QED  BY <2>1, <2>2, <2>3 DEF @@
<1> HIDE DEF A1, A2, A, s
<1>7. Did(r, s, A)
  BY <1>5, <1>6, DidSame
<1> QED  BY <1>7 DEF setChannelVolume, mode, r1, s, A

(* Retuning a channel: its block and its F-number.                         *)
TheFNumber(note) == noteFNumbers[(note % 12) + 1]
TheBlock(octave) == clampValue(octave, 0, NUM_OCTAVES)
Tuned(c, octave, note) ==
  <<"Low", c>> :> (TheFNumber(note) % 256)
    @@ (<<"High", c>> :> (TheFNumber(note) \div 256) @@ <<"Block", c>> :> TheBlock(octave))

(* Writes to a channel's pitch that leave it keyed off.                    *)
Quiet(bus, c) ==
  \A i \in 1 .. Len(bus) : /\ bus[i][1] \in {160 + c, 176 + c}
                           /\ bus[i][1] = 176 + c => bus[i][2] & 32 = 0

LEMMA QuietAppend ==
  ASSUME NEW c \in Channels, NEW bus \in Seq(Nat \X Byte), Quiet(bus, c), NEW a \in {160 + c, 176 + c},
         NEW v \in Byte, a = 176 + c => v & 32 = 0
  PROVE  Quiet(Append(bus, <<a, v>>), c)
<1> DEFINE e == <<a, v>>
           s == Append(bus, e)
<1>1. Len(s) = Len(bus) + 1 /\ s[Len(bus) + 1] = e /\ \A i \in 1 .. Len(bus) : s[i] = bus[i]
  OBVIOUS
<1>2. e[1] = a /\ e[2] = v
  OBVIOUS
<1>3. Len(bus) \in Nat
  OBVIOUS
<1> HIDE DEF s, e
<1>4. ASSUME NEW i \in 1 .. Len(s)
      PROVE  s[i][1] \in {160 + c, 176 + c} /\ (s[i][1] = 176 + c => s[i][2] & 32 = 0)
  <2>1. CASE i = Len(bus) + 1
    BY <1>1, <1>2, <2>1
  <2>2. CASE i \in 1 .. Len(bus)
    <3>1. s[i] = bus[i]
      BY <1>1, <2>2
    <3>2. bus[i][1] \in {160 + c, 176 + c} /\ (bus[i][1] = 176 + c => bus[i][2] & 32 = 0)
      BY <2>2 DEF Quiet
    <3> QED  BY <3>1, <3>2
  <2> QED  BY <1>1, <1>3, <2>1, <2>2
<1> QED  BY <1>4 DEF Quiet, s, e

LEMMA KeyedOff ==
  ASSUME NEW r, Good(r), NEW c \in Channels, Val(r, <<"KeyOn", c>>) = 0
  PROVE  r.chip[176 + c] \in Byte /\ r.chip[176 + c] & 32 = 0
<1>1. "KeyOn" \in ChannelNames /\ ChannelField("KeyOn") = Field(176, 223, 1, 5, 32)
  BY DEF ChannelNames, ChannelField, FieldsBC
<1>2. /\ Where(<<"KeyOn", c>>) = 176 + c /\ What(<<"KeyOn", c>>).take = 32 /\ What(<<"KeyOn", c>>).shift = 5
  BY <1>1, ChannelId DEF Field
<1>3. r.chip[176 + c] \in Byte
  BY ChannelByte DEF ChannelBases
<1>4. PICK b \in BitsOf : r.chip[176 + c] = AsByte(b)
  BY <1>3, HasBits
<1>5. r.chip[176 + c] & 32 = 32 * b[5] /\ b[5] \in 0..1
  BY <1>4, Masked, BitAt
<1>6. (r.chip[176 + c] & 32) \div 32 = 0
  BY <1>2, WeightsAre DEF Val, Take
<1> QED  BY <1>3, <1>5, <1>6

LEMMA NotesAre ==
  ASSUME NEW octave \in Nat, NEW note \in Nat
  PROVE  /\ TheFNumber(note) \in 0..1023 /\ TheBlock(octave) \in 0..7
         /\ TheFNumber(note) = 256 * (TheFNumber(note) \div 256) + (TheFNumber(note) % 256)
<1>1. note % 12 \in 0..11
  OBVIOUS
<1>2. TheFNumber(note) \in 0..1023
  BY <1>1 DEF TheFNumber, noteFNumbers
<1>3. TheBlock(octave) \in 0..7
  BY DEF TheBlock, clampValue, NUM_OCTAVES
<1>4. \A n \in 0..1023 : n = 256 * (n \div 256) + (n % 256)
  OBVIOUS
<1> QED  BY <1>2, <1>3, <1>4

(* A write to a channel that is keyed off.                                 *)
LEMMA WroteQuiet ==
  ASSUME NEW r, Good(r), NEW s, NEW c \in Channels, NEW b \in {160, 176},
         Wrote(r, s, b + c, s.chip[b + c]), Val(s, <<"KeyOn", c>>) = 0, Quiet(r.bus, c)
  PROVE  Quiet(s.bus, c)
<1>1. Good(s) /\ s.bus = Append(r.bus, <<b + c, s.chip[b + c]>>)
  BY DEF Wrote
<1>2. s.chip[b + c] \in Byte
  BY <1>1, ChannelByte DEF ChannelBases
<1>3. b = 176 => s.chip[b + c] & 32 = 0
  BY <1>1, KeyedOff
<1>4. b + c \in {160 + c, 176 + c} /\ (b + c = 176 + c => b = 176)
  BY DEF Channels
<1>5. r.bus \in Seq(Nat \X Byte)
  BY DEF Good, Drivers
<1> DEFINE a == b + c
           v == s.chip[b + c]
<1>6. /\ a \in {160 + c, 176 + c} /\ v \in Byte /\ (a = 176 + c => v & 32 = 0)
      /\ s.bus = Append(r.bus, <<a, v>>)
  BY <1>1, <1>2, <1>3, <1>4
<1> HIDE DEF a, v
<1> QED  BY <1>5, <1>6, QuietAppend

LEMMA Tunes ==
  ASSUME NEW r, Good(r), NEW c \in Channels, NEW octave \in Nat, NEW note \in Nat, NEW s,
         s = setFNumber(setChannelField(r, "Block", c, TheBlock(octave)), c, TheFNumber(note))
  PROVE  /\ Did(r, s, Tuned(c, octave, note))
         /\ Val(r, <<"KeyOn", c>>) = 0 /\ Quiet(r.bus, c) =>
              Val(s, <<"KeyOn", c>>) = 0 /\ Quiet(s.bus, c)
<1> DEFINE B == TheBlock(octave)
           N == TheFNumber(note)
           q == setChannelField(r, "Block", c, B)
           KO == <<"KeyOn", c>>
           A1 == <<"Block", c>> :> B
           A2 == <<"High", c>> :> (N \div 256)
           A3 == <<"Low", c>> :> (N % 256)
<1>1. N \in 0..1023 /\ B \in 0..7
  BY NotesAre
<1> HIDE DEF N, B
<1>2. "Block" \in DOMAIN FieldsBC /\ FieldsBC["Block"].low = 7 /\ FieldsBC["Block"].base = 176
  BY DEF FieldsBC, Field
<1>3. B \in Byte /\ B & 7 = B
  BY <1>1, LowKept DEF Byte
<1>4. Did(r, q, A1) /\ Wrote(r, q, 176 + c, q.chip[176 + c])
  <2> HIDE DEF A1
  <2>1. q = setChannelField(r, "Block", c, B)
    OBVIOUS
  <2> HIDE DEF q
  <2>2. /\ Did(r, q, <<"Block", c>> :> (B & FieldsBC["Block"].low))
        /\ Wrote(r, q, FieldsBC["Block"].base + c, q.chip[FieldsBC["Block"].base + c])
    BY <1>2, <1>3, <2>1, SetsChannelField
  <2> QED  BY <1>2, <1>3, <2>2 DEF A1
<1>5. s = setFNumber(q, c, N) /\ Good(q)
  BY <1>4 DEF Did, B, N
<1> HIDE DEF q
<1>6. PICK h : /\ Did(q, h, A2) /\ Wrote(q, h, 176 + c, h.chip[176 + c])
               /\ Did(h, s, A3) /\ Wrote(h, s, 160 + c, s.chip[160 + c])
  <2>1. ByHalves(q, s, c, N)
    BY <1>1, <1>5, SetsFNumber
  <2> QED  BY <2>1 DEF ByHalves
<1>7. Did(r, s, A3 @@ (A2 @@ A1))
  <2> HIDE DEF A1, A2, A3
  <2>1. Did(r, h, A2 @@ A1)
    BY <1>4, <1>6, DidBoth
  <2> QED  BY <1>6, <2>1, DidBoth
<1>8. A3 @@ (A2 @@ A1) = Tuned(c, octave, note)
  BY DEF Tuned, N, B
<1>9. /\ KO \in Ids /\ KO \notin DOMAIN A1 /\ KO \notin DOMAIN A2 /\ KO \notin DOMAIN A3
  <2>1. "KeyOn" \in ChannelNames
    BY DEF ChannelNames, FieldsBC
  <2>2. KO \in Ids
    BY <2>1, ChannelId
  <2>3. KO # <<"Block", c>> /\ KO # <<"High", c>> /\ KO # <<"Low", c>>
    OBVIOUS
  <2> QED  BY <2>2, <2>3 DEF :>
<1> HIDE DEF A1, A2, A3, KO
<1>10. ASSUME Val(r, KO) = 0, Quiet(r.bus, c)
       PROVE  Val(s, KO) = 0 /\ Quiet(s.bus, c)
  <2>1. Val(q, KO) = 0 /\ Val(h, KO) = 0 /\ Val(s, KO) = 0
    BY <1>4, <1>6, <1>9, <1>10 DEF Did
  <2>2. Good(h)
    BY <1>6 DEF Did
  <2>3. Quiet(q.bus, c)
    BY <1>4, <1>10, <2>1, WroteQuiet DEF KO
  <2>4. Quiet(h.bus, c)
    BY <1>5, <1>6, <2>1, <2>3, WroteQuiet DEF KO
  <2>5. Quiet(s.bus, c)
    BY <1>6, <2>1, <2>2, <2>4, WroteQuiet DEF KO
  <2> QED  BY <2>1, <2>5
<1> QED  BY <1>7, <1>8, <1>10 DEF KO

KeyIs(c, v) == <<"KeyOn", c>> :> v

LEMMA SetsKeyOn ==
  ASSUME NEW r, Good(r), NEW c \in Channels, NEW v \in 0..1, NEW s, s = setChannelField(r, "KeyOn", c, v)
  PROVE  Did(r, s, KeyIs(c, v)) /\ Wrote(r, s, 176 + c, s.chip[176 + c]) /\ Val(s, <<"KeyOn", c>>) = v
<1>1. "KeyOn" \in DOMAIN FieldsBC /\ "KeyOn" \in ChannelNames /\ FieldsBC["KeyOn"].low = 1 /\ FieldsBC["KeyOn"].base = 176
  BY DEF FieldsBC, Field, ChannelNames
<1>2. v \in Byte /\ v & 1 = v
  BY LowKept DEF Byte
<1>3. /\ Did(r, s, <<"KeyOn", c>> :> (v & FieldsBC["KeyOn"].low))
      /\ Wrote(r, s, FieldsBC["KeyOn"].base + c, s.chip[FieldsBC["KeyOn"].base + c])
  BY <1>1, <1>2, SetsChannelField
<1>4. <<"KeyOn", c>> \in Ids
  BY <1>1, ChannelId
<1>5. Did(r, s, KeyIs(c, v)) /\ Wrote(r, s, 176 + c, s.chip[176 + c])
  BY <1>1, <1>2, <1>3 DEF KeyIs
<1>6. <<"KeyOn", c>> \in DOMAIN KeyIs(c, v) /\ KeyIs(c, v)[<<"KeyOn", c>>] = v
  BY DEF KeyIs, :>
<1> QED  BY <1>4, <1>5, <1>6 DEF Did

(* playNote: what it sets, and the order of its writes.                    *)
KeyedOnLast(s, c) ==
  \E bus \in Seq(Nat \X Byte) : s.bus = Append(bus, <<176 + c, s.chip[176 + c]>>) /\ Quiet(bus, c)

LEMMA PlaysNote ==
  ASSUME NEW r, Good(r), r.bus = <<>>, NEW c \in Channels, NEW octave \in Nat, NEW note \in Nat,
         NEW s, s = playNote(r, c, octave, note)
  PROVE  /\ Did(r, s, KeyIs(c, 1) @@ Tuned(c, octave, note))
         /\ KeyedOnLast(s, c)
<1> DEFINE KO == <<"KeyOn", c>>
           on == getChannelField(r, "KeyOn", c) # 0
           r1 == IF on THEN setChannelField(r, "KeyOn", c, 0) ELSE r
           A1 == IF on THEN KeyIs(c, 0) ELSE NothingAsked
           r3 == setFNumber(setChannelField(r1, "Block", c, TheBlock(octave)), c, TheFNumber(note))
           T == Tuned(c, octave, note)
<1>1. s = setChannelField(r3, "KeyOn", c, 1)
  BY DEF playNote, TheBlock, TheFNumber
<1>2. getChannelField(r, "KeyOn", c) = Val(r, KO)
  <2>1. "KeyOn" \in DOMAIN FieldsBC
    BY DEF FieldsBC
  <2> QED  BY <2>1, Getters
<1>3. Quiet(r.bus, c)
  BY DEF Quiet
<1>4. Did(r, r1, A1) /\ Val(r1, KO) = 0 /\ Quiet(r1.bus, c)
  <2>1. CASE on
    <3>1. r1 = setChannelField(r, "KeyOn", c, 0) /\ A1 = KeyIs(c, 0)
      BY <2>1
    <3> HIDE DEF r1, A1
    <3>2. Did(r, r1, KeyIs(c, 0)) /\ Wrote(r, r1, 176 + c, r1.chip[176 + c]) /\ Val(r1, KO) = 0
      BY <3>1, SetsKeyOn
    <3>3. Quiet(r1.bus, c)
      BY <1>3, <3>2, WroteQuiet
    <3> QED  BY <3>1, <3>2, <3>3
  <2>2. CASE ~on
    <3>1. r1 = r /\ A1 = NothingAsked
      BY <2>2
    <3> HIDE DEF r1, A1
    <3>2. Did(r, r, NothingAsked)
      BY DEF Did, NothingAsked
    <3> QED  BY <1>2, <1>3, <2>2, <3>1, <3>2
  <2> QED  BY <2>1, <2>2
<1>5. Good(r1)
  BY <1>4 DEF Did
<1> HIDE DEF r1
<1>6. Did(r1, r3, T) /\ Val(r3, KO) = 0 /\ Quiet(r3.bus, c)
  <2>1. r3 = setFNumber(setChannelField(r1, "Block", c, TheBlock(octave)), c, TheFNumber(note))
    OBVIOUS
  <2> HIDE DEF r3
  <2> QED  BY <1>4, <1>5, <2>1, Tunes
<1>7. Good(r3)
  BY <1>6 DEF Did
<1> HIDE DEF r3
<1>8. Did(r3, s, KeyIs(c, 1)) /\ Wrote(r3, s, 176 + c, s.chip[176 + c])
  <2>1. 1 \in 0..1
    OBVIOUS
  <2> HIDE DEF A1, T
  <2> QED  BY <1>1, <1>7, <2>1, SetsKeyOn
<1> HIDE DEF A1, T
<1>9. Did(r, s, KeyIs(c, 1) @@ (T @@ A1))
  <2>1. Did(r, r3, T @@ A1)
    BY <1>4, <1>6, DidBoth
  <2> QED  BY <1>8, <2>1, DidBoth
<1>10. Did(r, s, KeyIs(c, 1) @@ T)
  <2> DEFINE X == KeyIs(c, 1) @@ (T @@ A1)
             Y == KeyIs(c, 1) @@ T
  <2>1. DOMAIN A1 \subseteq DOMAIN KeyIs(c, 1)
    BY DEF A1, KeyIs, NothingAsked, :>
  <2>2. DOMAIN X = DOMAIN Y /\ \A id \in DOMAIN X : X[id] = Y[id]
    BY <2>1 DEF @@
  <2> HIDE DEF X, Y
  <2>3. Did(r, s, X)
    BY <1>9 DEF X
  <2> QED  BY <2>2, <2>3, DidSame DEF Y
<1>11. r3.bus \in Seq(Nat \X Byte) /\ s.bus = Append(r3.bus, <<176 + c, s.chip[176 + c]>>)
  BY <1>7, <1>8 DEF Good, Drivers, Wrote
<1>12. KeyedOnLast(s, c)
  BY <1>6, <1>11 DEF KeyedOnLast
<1> QED  BY <1>10, <1>12 DEF T

(* playDrum: what it sets.                                                 *)
LEMMA PlaysDrum ==
  ASSUME NEW r, Good(r), NEW d \in 0..4, NEW octave \in Nat, NEW note \in Nat
  PROVE  Did(r, playDrum(r, d, octave, note),
             <<"Drums">> :> (getChipField(r, "Drums") | drumBits[d + 1])
               @@ Tuned(drumChannels[d + 1], octave, note))
<1> DEFINE c == drumChannels[d + 1]
           bit == drumBits[d + 1]
           state == getChipField(r, "Drums")
           off == state & (31 - bit)
           v == state | bit
           r1 == setDrums(r, off)
           r3 == setFNumber(setChannelField(r1, "Block", c, TheBlock(octave)), c, TheFNumber(note))
           s == setDrums(r3, v)
           T == Tuned(c, octave, note)
           D == <<"Drums">> :> v
           D1 == <<"Drums">> :> (off & 31)
<1>1. playDrum(r, d, octave, note) = s
  BY DrumsAre DEF playDrum, TheBlock, TheFNumber
<1>2. c \in Channels /\ bit \in {16, 8, 4, 2, 1}
  BY DrumsAre
<1>3. state \in 0..31
  <2>1. "Drums" \in DOMAIN ChipFields /\ ChipFields["Drums"].low = 31 /\ "Drums" # "NoteSelect"
    BY DEF ChipFields, Field
  <2>2. /\ <<"Drums">> \in Ids /\ What(<<"Drums">>).low = 31 /\ <<"Drums">> # <<"NoteSelect">>
        /\ state = Val(r, <<"Drums">>)
    BY <2>1, ChipId, Getters
  <2>3. state \in Byte /\ state & 31 = state
    BY <2>2, ValFits
  <2> HIDE DEF state
  <2>4. \A x \in Byte : x & 31 \in 0..31
    BY LowKept
  <2> QED  BY <2>3, <2>4
<1> HIDE DEF c, bit, state
<1>4. off \in Byte /\ v \in 0..31 /\ v \in Byte /\ v & 31 = v
  <2>1. off \in Byte
    BY <1>3, AndIsByte DEF Byte
  <2>2. v \in 0..31
    BY <1>2, <1>3, OrFits
  <2> HIDE DEF v
  <2> QED  BY <2>1, <2>2, LowKept, SMTT(30) DEF Byte
<1> HIDE DEF off, v
<1>5. Did(r, r1, D1) /\ Good(r1)
  BY <1>4, SetsDrums DEF Did
<1> HIDE DEF r1
<1>6. Did(r1, r3, T) /\ Good(r3)
  <2>1. r3 = setFNumber(setChannelField(r1, "Block", c, TheBlock(octave)), c, TheFNumber(note))
    OBVIOUS
  <2> HIDE DEF r3
  <2>2. Did(r1, r3, T)
    BY <1>2, <1>5, <2>1, Tunes
  <2> QED  BY <2>2 DEF Did
<1> HIDE DEF r3
<1>7. Did(r3, s, D)
  BY <1>4, <1>6, SetsDrums
<1> HIDE DEF s, T
<1>8. Did(r, s, D @@ (T @@ D1))
  <2> HIDE DEF D, D1
  <2>1. Did(r, r3, T @@ D1)
    BY <1>5, <1>6, DidBoth
  <2> QED  BY <1>7, <2>1, DidBoth
<1>9. Did(r, s, D @@ T)
  <2> DEFINE X == D @@ (T @@ D1)
             Y == D @@ T
  <2>1. DOMAIN D1 \subseteq DOMAIN D
    BY DEF :>
  <2> HIDE DEF D, D1
  <2>2. DOMAIN X = DOMAIN Y /\ \A id \in DOMAIN X : X[id] = Y[id]
    BY <2>1 DEF @@
  <2> HIDE DEF X, Y
  <2>3. Did(r, s, X)
    BY <1>8 DEF X
  <2> QED  BY <2>2, <2>3, DidSame DEF Y
<1> QED  BY <1>1, <1>9 DEF D, T, v, state, bit, c

LEMMA ZeroedIsGood == Good(Zeroed)
<1>1. /\ Zeroed.chipRegisters = [i \in 0..2  |-> 0] /\ Zeroed.channelRegisters = [i \in 0..26 |-> 0]
      /\ Zeroed.operatorRegisters = [i \in 0..89 |-> 0] /\ Zeroed.chip = [a \in Addresses |-> 0]
      /\ Zeroed.bus = <<>>
  BY DEF Zeroed
<1>6. /\ \A i \in 0..2 : Zeroed.chipRegisters[i] = 0
      /\ \A i \in 0..26 : Zeroed.channelRegisters[i] = 0
      /\ \A i \in 0..89 : Zeroed.operatorRegisters[i] = 0
      /\ \A a \in Addresses : Zeroed.chip[a] = 0
  BY <1>1
<1>2. Zeroed \in Drivers
  BY DEF Zeroed, Drivers, Byte
<1>3. \A b \in ChipAddresses : getChipRegister(Zeroed, b) = Zeroed.chip[b]
  BY <1>6, ShadowsDiffer, AddressesDiffer DEF getChipRegister
<1>4. \A b \in ChannelBases, c \in Channels : getChannelRegister(Zeroed, b, c) = Zeroed.chip[b + c]
  BY <1>6, ShadowsDiffer, AddressesDiffer DEF getChannelRegister
<1>5. \A b \in OperatorBases, c \in Channels, o \in Operators :
        getOperatorRegister(Zeroed, b, c, o) = Zeroed.chip[Address(b, c, o)]
  BY <1>6, ShadowsDiffer, AddressesDiffer DEF getOperatorRegister
<1> QED  BY <1>2, <1>3, <1>4, <1>5 DEF Good

LEMMA BeginIsGood == Good(YM3812_Begin)
<1> DEFINE I == loadInstrument(TEST_INSTRUMENT)
           set(r, c) == setInstrument(r, c, I, 100)
<1>1. Instrument(I)
  <2>1. TEST_INSTRUMENT \in [1..11 -> 0..255]
    BY DEF TEST_INSTRUMENT
  <2> QED  BY <2>1, Unpacked
<1> HIDE DEF I
<1>2. ASSUME NEW r, Good(r), NEW c \in Channels  PROVE Good(set(r, c))
  <2>1. 100 \in Volumes
    BY DEF Volumes
  <2> QED  BY <1>1, <1>2, <2>1, SetsInstrument DEF Did
<1>3. 0 \in Channels /\ 1 \in Channels /\ 2 \in Channels /\ 3 \in Channels /\ 4 \in Channels
      /\ 5 \in Channels /\ 6 \in Channels /\ 7 \in Channels /\ 8 \in Channels
  BY DEF Channels
<1> HIDE DEF set
<1>4. YM3812_Begin = set(set(set(set(set(set(set(set(set(Zeroed, 0), 1), 2), 3), 4), 5), 6), 7), 8)
  BY DEF YM3812_Begin, set, I
<1>5. Good(set(set(set(Zeroed, 0), 1), 2))
  BY <1>2, <1>3, ZeroedIsGood
<1>6. Good(set(set(set(set(set(set(Zeroed, 0), 1), 2), 3), 4), 5))
  BY <1>2, <1>3, <1>5
<1>7. Good(set(set(set(set(set(set(set(set(set(Zeroed, 0), 1), 2), 3), 4), 5), 6), 7), 8))
  BY <1>2, <1>3, <1>6
<1> QED  BY <1>4, <1>7
-----------------------------------------------------------------------------
(* From calls to steps: a step starts with nothing on the bus.             *)
LEMMA FreshIs ==
  ASSUME NEW r, Good(r), NEW s, s = [r EXCEPT !.bus = <<>>]
  PROVE  /\ Good(s) /\ s.bus = <<>> /\ \A id \in Ids : Val(s, id) = Val(r, id)
         /\ \A f, c : getChannelField(s, f, c) = getChannelField(r, f, c)
         /\ \A f : getChipField(s, f) = getChipField(r, f)
<1>1. /\ s.bus = <<>> /\ s.chip = r.chip /\ s.chipRegisters = r.chipRegisters
      /\ s.channelRegisters = r.channelRegisters /\ s.operatorRegisters = r.operatorRegisters
      /\ s \in Drivers
  <2>1. r \in Drivers /\ <<>> \in Seq(Nat \X Byte)
    BY DEF Good
  <2> QED  BY <2>1 DEF Drivers
<1>2. Good(s)
  <2>1. \A b \in ChipAddresses : getChipRegister(s, b) = s.chip[b]
    BY <1>1 DEF Good, getChipRegister
  <2>2. \A b \in ChannelBases, c \in Channels : getChannelRegister(s, b, c) = s.chip[b + c]
    BY <1>1 DEF Good, getChannelRegister
  <2>3. \A b \in OperatorBases, c \in Channels, o \in Operators :
          getOperatorRegister(s, b, c, o) = s.chip[Address(b, c, o)]
    BY <1>1 DEF Good, getOperatorRegister
  <2> QED  BY <1>1, <2>1, <2>2, <2>3 DEF Good
<1> QED  BY <1>1, <1>2 DEF Val, getChannelField, getChannelRegister, getChipField, getChipRegister

(* The fields calls are about: those of the registers, and F-numbers,      *)
(* which are two fields each.                                              *)
FNumberIds == {<<"FNumber", c>> : c \in Channels}
HalfIds == {<<f, c>> : f \in {"High", "Low"}, c \in Channels}
Named == (Ids \ HalfIds) \cup FNumberIds

(* What is asked for, B, is what was done, A.                              *)
Matches(A, B) ==
  /\ DOMAIN B \subseteq Named
  /\ \A id \in DOMAIN B \ FNumberIds : id \in DOMAIN A /\ A[id] = B[id]
  /\ \A c \in Channels : <<"FNumber", c>> \in DOMAIN B =>
       /\ {<<"High", c>>, <<"Low", c>>} \subseteq DOMAIN A
       /\ B[<<"FNumber", c>>] = 256 * A[<<"High", c>>] + A[<<"Low", c>>]
  /\ \A id \in DOMAIN A : \/ id \in DOMAIN B
                          \/ \E c \in Channels : /\ id \in {<<"High", c>>, <<"Low", c>>}
                                                 /\ <<"FNumber", c>> \in DOMAIN B

LEMMA NamesDiffer ==
  /\ "FNumber" \notin OperatorFieldNames /\ "FNumber" \notin ChannelNames /\ "FNumber" \notin DOMAIN ChipFields
  /\ "High" \notin DOMAIN FieldsBC /\ "Low" \notin DOMAIN FieldsBC
  /\ {"Block", "KeyOn", "Feedback", "SynthMode"} = DOMAIN FieldsBC
<1>1. DOMAIN FieldsBC = {"Block", "KeyOn", "Feedback", "SynthMode"}
  BY DEF FieldsBC
<1>2. DOMAIN ChipFields = {"DeepTremolo", "DeepVibrato", "Percussion", "Drums", "WaveFormSelect", "NoteSelect"}
  BY DEF ChipFields
<1>3. "FNumber" \notin OperatorFieldNames
  BY OperatorFieldsAre
<1> QED  BY <1>1, <1>2, <1>3 DEF ChannelNames

LEMMA NamedIs ==
  ASSUME NEW id \in Named
  PROVE  \/ \E f \in OperatorFieldNames, c \in Channels, o \in Operators : id = <<f, c, o>>
         \/ \E f \in DOMAIN FieldsBC, c \in Channels : id = <<f, c>>
         \/ \E f \in DOMAIN ChipFields : id = <<f>>
         \/ \E c \in Channels : id = <<"FNumber", c>>
<1>1. CASE id \in FNumberIds
  BY <1>1 DEF FNumberIds
<1>2. CASE id \in Ids \ HalfIds
  <2>1. ASSUME NEW f \in ChannelNames, NEW c \in Channels, id = <<f, c>>
        PROVE  f \in DOMAIN FieldsBC
    BY <1>2, <2>1 DEF HalfIds, ChannelNames
  <2> QED  BY <1>2, <2>1, IdIs
<1> QED  BY <1>1, <1>2 DEF Named

LEMMA FieldIs ==
  ASSUME NEW r, Good(r)
  PROVE  /\ \A id \in Named \ FNumberIds : id \in Ids \ HalfIds /\ FieldValue(r, id) = Val(r, id)
         /\ \A c \in Channels :
              FieldValue(r, <<"FNumber", c>>) = 256 * Val(r, <<"High", c>>) + Val(r, <<"Low", c>>)
<1>1. ASSUME NEW id, NEW f \in OperatorFieldNames, NEW c \in Channels, NEW o \in Operators, id = <<f, c, o>>
      PROVE  FieldValue(r, id) = Val(r, id)
  <2>1. Len(id) = 3 /\ id[1] = f /\ id[2] = c /\ id[3] = o
    BY <1>1
  <2>2. id[1] # "FNumber"
    BY <2>1, NamesDiffer
  <2>3. FieldValue(r, id) = getOperatorField(r, f, c, o)
    BY <2>1, <2>2 DEF FieldValue
  <2> QED  BY <1>1, <2>3, Getters
<1>2. ASSUME NEW id, NEW f \in DOMAIN FieldsBC, NEW c \in Channels, id = <<f, c>>
      PROVE  FieldValue(r, id) = Val(r, id)
  <2>1. Len(id) = 2 /\ id[1] = f /\ id[2] = c
    BY <1>2
  <2>2. id[1] # "FNumber"
    BY <2>1, NamesDiffer DEF ChannelNames
  <2>3. FieldValue(r, id) = getChannelField(r, f, c)
    BY <2>1, <2>2 DEF FieldValue
  <2> QED  BY <1>2, <2>3, Getters
<1>3. ASSUME NEW id, NEW f \in DOMAIN ChipFields, id = <<f>>
      PROVE  FieldValue(r, id) = Val(r, id)
  <2>1. Len(id) = 1 /\ id[1] = f
    BY <1>3
  <2>2. id[1] # "FNumber"
    BY <2>1, NamesDiffer
  <2>3. FieldValue(r, id) = getChipField(r, f)
    BY <2>1, <2>2 DEF FieldValue
  <2> QED  BY <1>3, <2>3, Getters
<1>4. ASSUME NEW c \in Channels
      PROVE  FieldValue(r, <<"FNumber", c>>) = 256 * Val(r, <<"High", c>>) + Val(r, <<"Low", c>>)
  <2> DEFINE id == <<"FNumber", c>>
  <2>1. Len(id) = 2 /\ id[1] = "FNumber" /\ id[2] = c
    OBVIOUS
  <2> HIDE DEF id
  <2>2. FieldValue(r, id) = getFNumber(r, c)
    BY <2>1 DEF FieldValue
  <2> QED  BY <2>2, Getters DEF id
<1>5. ASSUME NEW id \in Named \ FNumberIds  PROVE id \in Ids \ HalfIds /\ FieldValue(r, id) = Val(r, id)
  <2>1. \A c \in Channels : id # <<"FNumber", c>>
    BY DEF FNumberIds
  <2> QED  BY <1>1, <1>2, <1>3, <2>1, NamedIs DEF Named
<1> QED  BY <1>4, <1>5

LEMMA DoneIsRead ==
  ASSUME NEW r, Good(r), NEW s, NEW A, NEW B, Did(r, s, A), Matches(A, B)
  PROVE  /\ \A id \in DOMAIN B : FieldValue(s, id) = B[id]
         /\ \A id \in Named \ DOMAIN B : FieldValue(s, id) = FieldValue(r, id)
<1>1. Good(s) /\ \A id \in Ids : Val(s, id) = IF id \in DOMAIN A THEN A[id] ELSE Val(r, id)
  BY DEF Did
<1>2. ASSUME NEW c \in Channels  PROVE <<"High", c>> \in Ids /\ <<"Low", c>> \in Ids
  BY Halves, ChannelId
<1>3. ASSUME NEW id \in DOMAIN B  PROVE FieldValue(s, id) = B[id]
  <2>1. CASE id \in FNumberIds
    <3>1. PICK c \in Channels : id = <<"FNumber", c>>
      BY <2>1 DEF FNumberIds
    <3>2. /\ <<"High", c>> \in DOMAIN A /\ <<"Low", c>> \in DOMAIN A
          /\ B[id] = 256 * A[<<"High", c>>] + A[<<"Low", c>>]
      BY <3>1 DEF Matches
    <3>3. Val(s, <<"High", c>>) = A[<<"High", c>>] /\ Val(s, <<"Low", c>>) = A[<<"Low", c>>]
      BY <1>1, <1>2, <3>2
    <3> QED  BY <1>1, <3>1, <3>2, <3>3, FieldIs
  <2>2. CASE id \notin FNumberIds
    <3>1. id \in Named \ FNumberIds /\ id \in DOMAIN A /\ A[id] = B[id]
      BY <2>2 DEF Matches
    <3> QED  BY <1>1, <3>1, FieldIs
  <2> QED  BY <2>1, <2>2
<1>4. ASSUME NEW id \in Named \ DOMAIN B  PROVE FieldValue(s, id) = FieldValue(r, id)
  <2>1. CASE id \in FNumberIds
    <3>1. PICK c \in Channels : id = <<"FNumber", c>>
      BY <2>1 DEF FNumberIds
    <3>2. ASSUME NEW h \in {<<"High", c>>, <<"Low", c>>}  PROVE h \notin DOMAIN A
      <4>1. h \notin DOMAIN B
        <5>1. h \in HalfIds /\ h \notin FNumberIds
          BY DEF HalfIds, FNumberIds
        <5> QED  BY <5>1 DEF Matches, Named
      <4>2. \A d \in Channels : h \in {<<"High", d>>, <<"Low", d>>} => d = c
        OBVIOUS
      <4> QED  BY <1>4, <3>1, <4>1, <4>2 DEF Matches
    <3>3. Val(s, <<"High", c>>) = Val(r, <<"High", c>>) /\ Val(s, <<"Low", c>>) = Val(r, <<"Low", c>>)
      BY <1>1, <1>2, <3>2
    <3> QED  BY <1>1, <3>1, <3>3, FieldIs
  <2>2. CASE id \notin FNumberIds
    <3>1. id \in Named \ FNumberIds /\ id \in Ids \ HalfIds
      BY <2>2, FieldIs
    <3>2. id \notin DOMAIN A
      <4>1. \A c \in Channels : id \notin {<<"High", c>>, <<"Low", c>>}
        BY <3>1 DEF HalfIds
      <4> QED  BY <1>4, <4>1 DEF Matches
    <3> QED  BY <1>1, <3>1, <3>2, FieldIs
  <2> QED  BY <2>1, <2>2
<1> QED  BY <1>3, <1>4

LEMMA MatchesItself ==
  ASSUME NEW A, DOMAIN A \subseteq Ids \ HalfIds
  PROVE  Matches(A, A)
<1>1. \A c \in Channels : <<"FNumber", c>> \notin Ids
  <2>1. ASSUME NEW c \in Channels, <<"FNumber", c>> \in Ids  PROVE FALSE
    <3>1. \E f \in ChannelNames, d \in Channels : <<"FNumber", c>> = <<f, d>>
      BY <2>1, IdIs
    <3> QED  BY <3>1, NamesDiffer
  <2> QED  BY <2>1
<1> QED  BY <1>1 DEF Matches, Named

LEMMA MatchesMore ==
  ASSUME NEW A, NEW B, Matches(A, B), NEW X, DOMAIN X \subseteq Ids \ HalfIds,
         DOMAIN X \cap DOMAIN A = {}, DOMAIN X \cap DOMAIN B = {}
  PROVE  Matches(X @@ A, B @@ X)
<1> DEFINE C == X @@ A
           D == B @@ X
<1>1. /\ DOMAIN C = DOMAIN X \cup DOMAIN A /\ DOMAIN D = DOMAIN B \cup DOMAIN X
      /\ \A id \in DOMAIN X : C[id] = X[id] /\ D[id] = X[id]
      /\ \A id \in DOMAIN A : C[id] = A[id]
      /\ \A id \in DOMAIN B : D[id] = B[id]
  BY DEF @@
<1> HIDE DEF C, D
<1>2. ASSUME NEW c \in Channels  PROVE <<"FNumber", c>> \notin DOMAIN X
  <2>1. ASSUME <<"FNumber", c>> \in Ids  PROVE FALSE
    <3>1. \E f \in ChannelNames, d \in Channels : <<"FNumber", c>> = <<f, d>>
      BY <2>1, IdIs
    <3> QED  BY <3>1, NamesDiffer
  <2> QED  BY <2>1
<1>3. DOMAIN D \subseteq Named
  BY <1>1 DEF Matches, Named
<1>4. \A id \in DOMAIN D \ FNumberIds : id \in DOMAIN C /\ C[id] = D[id]
  BY <1>1 DEF Matches
<1>5. ASSUME NEW c \in Channels, <<"FNumber", c>> \in DOMAIN D
      PROVE  /\ {<<"High", c>>, <<"Low", c>>} \subseteq DOMAIN C
             /\ D[<<"FNumber", c>>] = 256 * C[<<"High", c>>] + C[<<"Low", c>>]
  <2>1. <<"FNumber", c>> \in DOMAIN B
    BY <1>1, <1>2, <1>5
  <2>2. /\ <<"High", c>> \in DOMAIN A /\ <<"Low", c>> \in DOMAIN A
        /\ B[<<"FNumber", c>>] = 256 * A[<<"High", c>>] + A[<<"Low", c>>]
    BY <2>1 DEF Matches
  <2>3. C[<<"High", c>>] = A[<<"High", c>>] /\ C[<<"Low", c>>] = A[<<"Low", c>>]
    BY <1>1, <2>2
  <2>4. D[<<"FNumber", c>>] = B[<<"FNumber", c>>]
    BY <1>1, <2>1
  <2> QED  BY <1>1, <2>2, <2>3, <2>4
<1>6. \A id \in DOMAIN C : \/ id \in DOMAIN D
                           \/ \E c \in Channels : /\ id \in {<<"High", c>>, <<"Low", c>>}
                                                  /\ <<"FNumber", c>> \in DOMAIN D
  BY <1>1 DEF Matches
<1>7. Matches(C, D)
  BY <1>3, <1>4, <1>5, <1>6 DEF Matches
<1> QED  BY <1>7 DEF C, D

LEMMA FNumberMatches ==
  ASSUME NEW c \in Channels, NEW n \in 0..1023
  PROVE  Matches(<<"Low", c>> :> (n % 256) @@ <<"High", c>> :> (n \div 256), <<"FNumber", c>> :> n)
<1> DEFINE L == <<"Low", c>>
           H == <<"High", c>>
           N == <<"FNumber", c>>
           A == L :> (n % 256) @@ H :> (n \div 256)
           B == N :> n
<1>1. L # H
  OBVIOUS
<1>2. DOMAIN A = {L, H} /\ A[L] = n % 256 /\ A[H] = n \div 256
  <2> HIDE DEF L, H
  <2> QED  BY <1>1 DEF :>, @@
<1>3. DOMAIN B = {N} /\ B[N] = n
  BY DEF :>
<1>4. N \in FNumberIds /\ N \in Named
  BY DEF FNumberIds, Named
<1>5. n = 256 * (n \div 256) + (n % 256)
  OBVIOUS
<1>6. \A d \in Channels : <<"FNumber", d>> = N => d = c
  OBVIOUS
<1> HIDE DEF A, B
<1>7. \A d \in Channels : <<"FNumber", d>> \in DOMAIN B =>
        /\ {<<"High", d>>, <<"Low", d>>} \subseteq DOMAIN A
        /\ B[<<"FNumber", d>>] = 256 * A[<<"High", d>>] + A[<<"Low", d>>]
  BY <1>2, <1>3, <1>5, <1>6
<1>8. \A id \in DOMAIN A : \E d \in Channels : /\ id \in {<<"High", d>>, <<"Low", d>>}
                                              /\ <<"FNumber", d>> \in DOMAIN B
  BY <1>2, <1>3
<1>9. Matches(A, B)
  <2> HIDE DEF L, H, N
  <2> QED  BY <1>3, <1>4, <1>7, <1>8 DEF Matches
<1> QED  BY <1>9 DEF A, B

LEMMA TunedMatches ==
  ASSUME NEW c \in Channels, NEW octave \in Nat, NEW note \in Nat
  PROVE  /\ Matches(Tuned(c, octave, note), Pitched(c, octave, note))
         /\ DOMAIN Tuned(c, octave, note) = {<<"Low", c>>, <<"High", c>>, <<"Block", c>>}
         /\ DOMAIN Pitched(c, octave, note) = {<<"FNumber", c>>, <<"Block", c>>}
<1> DEFINE n == TheFNumber(note)
           b == TheBlock(octave)
           L == <<"Low", c>>
           H == <<"High", c>>
           N == <<"FNumber", c>>
           K == <<"Block", c>>
           A == Tuned(c, octave, note)
           B == Pitched(c, octave, note)
<1>1. L # H /\ L # K /\ H # K /\ N # K /\ N # L /\ N # H
  OBVIOUS
<1>2. n \in 0..1023 /\ b \in 0..7 /\ n = 256 * (n \div 256) + (n % 256)
  BY NotesAre
<1>3. A = L :> (n % 256) @@ (H :> (n \div 256) @@ K :> b) /\ B = K :> b @@ N :> n
  BY DEF Tuned, Pitched, TheFNumber, TheBlock
<1> HIDE DEF n, b, A, B
<1>4. DOMAIN A = {L, H, K} /\ A[L] = n % 256 /\ A[H] = n \div 256 /\ A[K] = b
  <2> DEFINE X == L :> (n % 256)
             Y == H :> (n \div 256)
             Z == K :> b
  <2>1. /\ DOMAIN X = {L} /\ DOMAIN Y = {H} /\ DOMAIN Z = {K}
        /\ X[L] = n % 256 /\ Y[H] = n \div 256 /\ Z[K] = b
    BY DEF :>
  <2>2. A = X @@ (Y @@ Z)
    BY <1>3
  <2> HIDE DEF X, Y, Z, L, H, K
  <2>3. DOMAIN (Y @@ Z) = {H, K} /\ (Y @@ Z)[H] = Y[H] /\ (Y @@ Z)[K] = Z[K]
    BY <1>1, <2>1 DEF @@
  <2> QED  BY <1>1, <2>1, <2>2, <2>3 DEF @@
<1>5. DOMAIN B = {N, K} /\ B[N] = n /\ B[K] = b
  <2> DEFINE X == K :> b
             Y == N :> n
  <2>1. DOMAIN X = {K} /\ DOMAIN Y = {N} /\ X[K] = b /\ Y[N] = n
    BY DEF :>
  <2>2. B = X @@ Y
    BY <1>3
  <2> HIDE DEF X, Y, L, H, K, N
  <2> QED  BY <1>1, <2>1, <2>2 DEF @@
<1>6. N \in FNumberIds /\ N \in Named /\ K \in Named
  <2>1. "Block" \in ChannelNames
    BY NamesDiffer DEF ChannelNames
  <2>2. K \in Ids /\ K \notin HalfIds
    BY <2>1, ChannelId DEF HalfIds
  <2> QED  BY <2>2 DEF FNumberIds, Named
<1>7. \A d \in Channels : <<"FNumber", d>> \in DOMAIN B => d = c
  BY <1>5
<1>8. \A d \in Channels : <<"FNumber", d>> \in DOMAIN B =>
        /\ {<<"High", d>>, <<"Low", d>>} \subseteq DOMAIN A
        /\ B[<<"FNumber", d>>] = 256 * A[<<"High", d>>] + A[<<"Low", d>>]
  BY <1>2, <1>4, <1>5, <1>7
<1>9. \A id \in DOMAIN A : \/ id \in DOMAIN B
                          \/ \E d \in Channels : /\ id \in {<<"High", d>>, <<"Low", d>>}
                                                 /\ <<"FNumber", d>> \in DOMAIN B
  BY <1>4, <1>5
<1>10. Matches(A, B)
  <2> HIDE DEF L, H, N, K
  <2> QED  BY <1>4, <1>5, <1>6, <1>8, <1>9 DEF Matches
<1> QED  BY <1>4, <1>5, <1>10 DEF A, B
-----------------------------------------------------------------------------
(* What each action does, as the step of a driver whose shadows are the    *)
(* chip.                                                                   *)
Answered == \E A : Did(Fresh, regs', A) /\ Matches(A, asked')

(* A note is asked for by its key and its block.                           *)
NoNote(A) == \A c \in Channels : <<"KeyOn", c>> \notin DOMAIN A \/ <<"Block", c>> \notin DOMAIN A

LEMMA ArgumentTypes ==
  /\ ChannelsSet \subseteq Channels /\ Arguments \subseteq Byte /\ Arguments \subseteq Nat
  /\ FNumbers \subseteq 0..1023
  /\ \A data \in Instruments : Instrument(loadInstrument(data))
<1>1. \A data \in Instruments : Instrument(loadInstrument(data))
  BY OPL2Assumption, Unpacked
<1> QED  BY <1>1, OPL2Assumption DEF Channels, Byte, OPL2_NUM_CHANNELS

LEMMA FreshIsGood ==
  ASSUME Good(regs)
  PROVE  /\ Good(Fresh) /\ Fresh.bus = <<>> /\ \A id \in Ids : Val(Fresh, id) = Val(regs, id)
         /\ \A f, c : getChannelField(Fresh, f, c) = getChannelField(regs, f, c)
         /\ \A f : getChipField(Fresh, f) = getChipField(regs, f)
<1>1. Fresh = [regs EXCEPT !.bus = <<>>]
  BY DEF Fresh
<1> QED  BY <1>1, FreshIs

LEMMA NoNoteInTune ==
  ASSUME NoNote(asked')
  PROVE  NoteStartsInTune'
<1>1. \A ch \in ChannelsSet : ~({<<"KeyOn", ch>>, <<"Block", ch>>} \subseteq DOMAIN asked')
  BY ArgumentTypes DEF NoNote
<1> QED  BY <1>1 DEF NoteStartsInTune

LEMMA OneAsked ==
  ASSUME NEW id, NEW v
  PROVE  DOMAIN (id :> v) = {id} /\ (id :> v)[id] = v /\ NoNote(id :> v)
<1>1. DOMAIN (id :> v) = {id} /\ (id :> v)[id] = v
  BY DEF :>
<1>2. \A c \in Channels : <<"KeyOn", c>> # <<"Block", c>>
  OBVIOUS
<1> QED  BY <1>1, <1>2 DEF NoNote

LEMMA Tuples ==
  ASSUME NEW c \in Channels
  PROVE  /\ \A f \in OperatorFieldNames, o \in Operators : <<f, c, o>> \in Ids \ HalfIds
         /\ \A f \in DOMAIN FieldsBC : <<f, c>> \in Ids \ HalfIds
         /\ \A f \in DOMAIN ChipFields : <<f>> \in Ids \ HalfIds
<1>1. \A f \in OperatorFieldNames, o \in Operators : <<f, c, o>> \in Ids \ HalfIds
  BY OperatorId DEF HalfIds
<1>2. \A f \in DOMAIN FieldsBC : <<f, c>> \in Ids \ HalfIds
  BY ChannelId, NamesDiffer DEF HalfIds, ChannelNames
<1>3. \A f \in DOMAIN ChipFields : <<f>> \in Ids \ HalfIds
  <2>1. ASSUME NEW f, <<f>> \in HalfIds  PROVE FALSE
    <3>1. PICK g \in {"High", "Low"}, d \in Channels : <<f>> = <<g, d>>
      BY <2>1 DEF HalfIds
    <3>2. Len(<<f>>) = 1 /\ Len(<<g, d>>) = 2
      OBVIOUS
    <3> QED  BY <3>1, <3>2
  <2> QED  BY <2>1, ChipId
<1> QED  BY <1>1, <1>2, <1>3

LEMMA OneMatches ==
  ASSUME NEW id \in Ids \ HalfIds, NEW v
  PROVE  Matches(id :> v, id :> v) /\ NoNote(id :> v)
<1> DEFINE A == id :> v
<1>1. DOMAIN A = {id} /\ NoNote(A)
  BY OneAsked
<1> HIDE DEF A
<1>2. Matches(A, A)
  BY <1>1, MatchesItself
<1> QED  BY <1>1, <1>2 DEF A

LEMMA OneStep ==
  ASSUME NEW id \in Ids \ HalfIds, NEW v, Did(Fresh, regs', id :> v), asked' = id :> v
  PROVE  Answered /\ NoteStartsInTune'
<1>1. Matches(id :> v, asked') /\ NoNote(asked')
  BY OneMatches
<1> DEFINE A == id :> v
<1> HIDE DEF A
<1>2. Did(Fresh, regs', A) /\ Matches(A, asked')
  BY <1>1 DEF A
<1> QED  BY <1>1, <1>2, NoNoteInTune DEF Answered

LEMMA ParameterType == ASSUME NEW f, NEW v \in Byte PROVE AsParameter(f, v) \in Byte
BY DEF AsParameter, Byte

LEMMA SetOperatorFieldStep ==
  ASSUME Good(regs), NEW ch \in ChannelsSet, NEW v \in Arguments,
         NEW f \in OperatorFieldNames, NEW op \in Operators, SetOperatorField(f, ch, op, v)
  PROVE  Answered /\ NoteStartsInTune'
<1> DEFINE id == <<f, ch, op>>
           p == AsParameter(f, v)
           x == p & OperatorFields(f).low
<1>1. ch \in Channels /\ p \in Byte /\ Good(Fresh)
  BY ArgumentTypes, ParameterType, FreshIsGood
<1>2. regs' = setOperatorField(Fresh, f, ch, op, p) /\ asked' = id :> x
  BY DEF SetOperatorField, Call
<1> HIDE DEF p
<1>3. Did(Fresh, regs', id :> x)
  BY <1>1, <1>2, SetsOperatorField
<1>4. id \in Ids \ HalfIds
  BY <1>1, Tuples
<1> HIDE DEF id, x
<1> QED  BY <1>2, <1>3, <1>4, OneStep

LEMMA SetChannelFieldStep ==
  ASSUME Good(regs), NEW ch \in ChannelsSet, NEW v \in Arguments, NEW f \in DOMAIN FieldsBC,
         SetChannelField(f, ch, v)
  PROVE  Answered /\ NoteStartsInTune'
<1> DEFINE id == <<f, ch>>
           p == AsParameter(f, v)
           x == p & FieldsBC[f].low
<1>1. ch \in Channels /\ p \in Byte /\ Good(Fresh)
  BY ArgumentTypes, ParameterType, FreshIsGood
<1>2. regs' = setChannelField(Fresh, f, ch, p) /\ asked' = id :> x
  BY DEF SetChannelField, Call
<1> HIDE DEF p
<1>3. Did(Fresh, regs', id :> x)
  BY <1>1, <1>2, SetsChannelField
<1>4. id \in Ids \ HalfIds
  BY <1>1, Tuples
<1> HIDE DEF id, x
<1> QED  BY <1>2, <1>3, <1>4, OneStep

LEMMA SetChipFieldStep ==
  ASSUME Good(regs), NEW v \in Arguments, NEW f \in DOMAIN ChipFields, SetChipField(f, v)
  PROVE  Answered /\ NoteStartsInTune'
<1> DEFINE id == <<f>>
           p == AsParameter(f, v)
           x == p & ChipFields[f].low
<1>1. p \in Byte /\ Good(Fresh)
  BY ArgumentTypes, ParameterType, FreshIsGood
<1>2. /\ regs' = IF f = "Drums" THEN setDrums(Fresh, p) ELSE setChipField(Fresh, f, p)
      /\ asked' = id :> x
  BY DEF SetChipField, Call
<1> HIDE DEF p
<1>3. Did(Fresh, regs', id :> x)
  <2>1. CASE f = "Drums"
    <3>1. ChipFields[f].low = 31
      BY <2>1 DEF ChipFields, Field
    <3> QED  BY <1>1, <1>2, <2>1, <3>1, SetsDrums
  <2>2. CASE f # "Drums"
    BY <1>1, <1>2, <2>2, SetsChipField
  <2> QED  BY <2>1, <2>2
<1>4. id \in Ids \ HalfIds
  <2>1. 0 \in Channels
    BY DEF Channels
  <2> QED  BY <2>1, Tuples
<1> HIDE DEF id, x
<1> QED  BY <1>2, <1>3, <1>4, OneStep

LEMMA SetFNumberStep ==
  ASSUME Good(regs), NEW ch \in ChannelsSet, NEW n \in FNumbers, SetFNumber(ch, n)
  PROVE  Answered /\ NoteStartsInTune'
<1> DEFINE L == <<"Low", ch>> :> (n % 256)
           H == <<"High", ch>> :> (n \div 256)
<1>1. ch \in Channels /\ n \in 0..1023 /\ Good(Fresh)
  BY ArgumentTypes, FreshIsGood
<1>2. regs' = setFNumber(Fresh, ch, n) /\ asked' = <<"FNumber", ch>> :> n
  BY DEF SetFNumber, Call
<1>3. ByHalves(Fresh, regs', ch, n)
  BY <1>1, <1>2, SetsFNumber
<1>4. Matches(L @@ H, asked')
  BY <1>1, <1>2, FNumberMatches
<1>5. \E h : Did(Fresh, h, H) /\ Did(h, regs', L)
  BY <1>3 DEF ByHalves
<1> HIDE DEF L, H
<1>6. Did(Fresh, regs', L @@ H)
  BY <1>5, DidBoth
<1>7. NoNote(asked')
  BY <1>2, OneAsked
<1> QED  BY <1>4, <1>6, <1>7, NoNoteInTune DEF Answered

LEMMA SetChannelVolumeStep ==
  ASSUME Good(regs), NEW ch \in ChannelsSet, NEW v \in Arguments, SetChannelVolume(ch, v)
  PROVE  Answered /\ NoteStartsInTune'
<1> DEFINE ops == IF getChannelField(regs, "SynthMode", ch) = 1 THEN Operators ELSE {OPERATOR2}
           A == [id \in {<<"Volume", ch, o>> : o \in ops} |-> v & 63]
<1>1. ch \in Channels /\ v \in Byte /\ Good(Fresh)
      /\ getChannelField(Fresh, "SynthMode", ch) = getChannelField(regs, "SynthMode", ch)
  BY ArgumentTypes, FreshIsGood
<1>2. regs' = setChannelVolume(Fresh, ch, v) /\ asked' = A
  BY DEF SetChannelVolume, Call
<1>3. Did(Fresh, regs', A)
  <2>1. Did(Fresh, setChannelVolume(Fresh, ch, v),
             [id \in {<<"Volume", ch, o>> : o \in IF getChannelField(Fresh, "SynthMode", ch) = 1
                                                   THEN Operators ELSE {OPERATOR2}} |-> v & 63])
    BY <1>1, SetsChannelVolume
  <2> QED  BY <1>1, <1>2, <2>1
<1>4. \A id \in DOMAIN A : \E o \in Operators : id = <<"Volume", ch, o>>
  BY DEF Operators
<1> HIDE DEF A
<1>5. DOMAIN A \subseteq Ids \ HalfIds
  <2>1. "Volume" \in OperatorFieldNames
    BY OperatorFieldsAre
  <2> QED  BY <1>1, <1>4, <2>1, Tuples
<1>6. NoNote(A)
  <2>1. \A c \in Channels, o \in Operators : <<"KeyOn", c>> # <<"Volume", ch, o>>
    OBVIOUS
  <2> QED  BY <1>4, <2>1 DEF NoNote
<1>7. Matches(A, A)
  BY <1>5, MatchesItself
<1> QED  BY <1>2, <1>3, <1>6, <1>7, NoNoteInTune DEF Answered

LEMMA PlayNoteStep ==
  ASSUME Good(regs), NEW ch \in ChannelsSet, NEW octave \in Arguments, NEW note \in Arguments,
         PlayNote(ch, octave, note)
  PROVE  Answered /\ NoteStartsInTune'
<1> DEFINE T == Tuned(ch, octave, note)
           P == Pitched(ch, octave, note)
           X == KeyIs(ch, 1)
<1>1. ch \in Channels /\ octave \in Nat /\ note \in Nat /\ Good(Fresh) /\ Fresh.bus = <<>>
  BY ArgumentTypes, FreshIsGood
<1>2. regs' = playNote(Fresh, ch, octave, note) /\ asked' = P @@ X
  BY DEF PlayNote, Call, KeyIs
<1>3. Did(Fresh, regs', X @@ T) /\ KeyedOnLast(regs', ch)
  BY <1>1, <1>2, PlaysNote
<1>4. /\ Matches(T, P) /\ DOMAIN T = {<<"Low", ch>>, <<"High", ch>>, <<"Block", ch>>}
      /\ DOMAIN P = {<<"FNumber", ch>>, <<"Block", ch>>}
  BY <1>1, TunedMatches
<1>5. DOMAIN X = {<<"KeyOn", ch>>} /\ <<"KeyOn", ch>> \in Ids \ HalfIds
  BY <1>1, OneAsked, Tuples, NamesDiffer DEF KeyIs
<1> HIDE DEF T, P, X
<1>6. DOMAIN X \cap DOMAIN T = {} /\ DOMAIN X \cap DOMAIN P = {}
  BY <1>4, <1>5
<1>7. Matches(X @@ T, asked')
  BY <1>2, <1>4, <1>5, <1>6, MatchesMore
<1>8. \A c \in ChannelsSet : <<"KeyOn", c>> \in DOMAIN asked' => c = ch
  <2>1. DOMAIN asked' = DOMAIN P \cup DOMAIN X
    BY <1>2 DEF @@
  <2> QED  BY <1>4, <1>5, <2>1
<1>9. PICK bus \in Seq(Nat \X Byte) :
        regs'.bus = Append(bus, <<176 + ch, regs'.chip[176 + ch]>>) /\ Quiet(bus, ch)
  BY <1>3 DEF KeyedOnLast
<1> DEFINE e == <<176 + ch, regs'.chip[176 + ch]>>
           all == Append(bus, e)
<1>10. /\ Len(bus) \in Nat /\ Len(all) = Len(bus) + 1 /\ all[Len(all)] = e
       /\ \A i \in 1 .. Len(bus) : all[i] = bus[i]
  OBVIOUS
<1>11. e[1] = 176 + ch /\ regs'.bus = all
  BY <1>9
<1> HIDE DEF e, all
<1>12. /\ regs'.bus[Len(regs'.bus)][1] = 176 + ch
       /\ \A i \in 1 .. Len(regs'.bus) - 1 :
            /\ regs'.bus[i][1] \in {160 + ch, 176 + ch}
            /\ regs'.bus[i][1] = 176 + ch => regs'.bus[i][2] & 32 = 0
  <2>1. regs'.bus[Len(regs'.bus)][1] = 176 + ch
    BY <1>10, <1>11
  <2>2. ASSUME NEW i \in 1 .. Len(regs'.bus) - 1
        PROVE  /\ regs'.bus[i][1] \in {160 + ch, 176 + ch}
               /\ regs'.bus[i][1] = 176 + ch => regs'.bus[i][2] & 32 = 0
    <3>1. i \in 1 .. Len(bus) /\ regs'.bus[i] = bus[i]
      BY <1>10, <1>11
    <3>2. /\ bus[i][1] \in {160 + ch, 176 + ch}
          /\ bus[i][1] = 176 + ch => bus[i][2] & 32 = 0
      BY <1>9, <3>1 DEF Quiet
    <3> QED  BY <3>1, <3>2
  <2> QED  BY <2>1, <2>2
<1>13. NoteStartsInTune'
  BY <1>8, <1>12 DEF NoteStartsInTune
<1> QED  BY <1>3, <1>7, <1>13 DEF Answered

LEMMA PlayDrumStep ==
  ASSUME Good(regs), NEW drum \in 0..4, NEW octave \in Arguments, NEW note \in Arguments,
         PlayDrum(drum, octave, note)
  PROVE  Answered /\ NoteStartsInTune'
<1> DEFINE ch == drumChannels[drum + 1]
           T == Tuned(ch, octave, note)
           P == Pitched(ch, octave, note)
           v == getChipField(regs, "Drums") | drumBits[drum + 1]
           X == <<"Drums">> :> v
<1>1. ch \in Channels /\ octave \in Nat /\ note \in Nat /\ Good(Fresh)
      /\ getChipField(Fresh, "Drums") = getChipField(regs, "Drums")
  BY ArgumentTypes, FreshIsGood, DrumsAre
<1>2. regs' = playDrum(Fresh, drum, octave, note) /\ asked' = P @@ X
  BY DEF PlayDrum, Call
<1>3. Did(Fresh, regs', X @@ T)
  BY <1>1, <1>2, PlaysDrum
<1> HIDE DEF ch, v
<1>4. /\ Matches(T, P) /\ DOMAIN T = {<<"Low", ch>>, <<"High", ch>>, <<"Block", ch>>}
      /\ DOMAIN P = {<<"FNumber", ch>>, <<"Block", ch>>}
  BY <1>1, TunedMatches
<1>5. DOMAIN X = {<<"Drums">>} /\ <<"Drums">> \in Ids \ HalfIds
  <2>1. "Drums" \in DOMAIN ChipFields
    BY DEF ChipFields
  <2> QED  BY <1>1, <2>1, OneAsked, Tuples
<1> HIDE DEF T, P, X
<1>6. /\ <<"Drums">> # <<"Low", ch>> /\ <<"Drums">> # <<"High", ch>> /\ <<"Drums">> # <<"Block", ch>>
      /\ <<"Drums">> # <<"FNumber", ch>>
  OBVIOUS
<1>7. DOMAIN X \cap DOMAIN T = {} /\ DOMAIN X \cap DOMAIN P = {}
  BY <1>4, <1>5, <1>6
<1>8. Matches(X @@ T, asked')
  BY <1>2, <1>4, <1>5, <1>7, MatchesMore
<1>9. NoNote(asked')
  <2>1. DOMAIN asked' = DOMAIN P \cup DOMAIN X
    BY <1>2 DEF @@
  <2>2. \A c \in Channels : /\ <<"KeyOn", c>> # <<"Drums">> /\ <<"KeyOn", c>> # <<"FNumber", ch>>
                           /\ <<"KeyOn", c>> # <<"Block", ch>>
    OBVIOUS
  <2> QED  BY <1>4, <1>5, <2>1, <2>2 DEF NoNote
<1> QED  BY <1>3, <1>8, <1>9, NoNoteInTune DEF Answered

(* What an instrument asks for.                                            *)
LEMMA InstrumentAsks ==
  ASSUME NEW c \in Channels, NEW ops \in SUBSET Operators, NEW instrument, NEW volume
  PROVE  /\ Matches(InstrumentFields(c, ops, instrument, volume), InstrumentFields(c, ops, instrument, volume))
         /\ NoNote(InstrumentFields(c, ops, instrument, volume))
<1> DEFINE O == {<<f, c, o>> : f \in OperatorFieldNames, o \in ops}
           A == InstrumentFields(c, ops, instrument, volume)
<1>1. DOMAIN A = O \cup {<<"Feedback", c>>} \cup {<<"SynthMode", c>>} \cup {<<"WaveFormSelect">>}
  BY DEF InstrumentFields, @@, :>
<1>2. "WaveFormSelect" \in DOMAIN ChipFields
  BY DEF ChipFields
<1>3. O \subseteq Ids \ HalfIds
  BY Tuples
<1>4. <<"Feedback", c>> \in Ids \ HalfIds /\ <<"SynthMode", c>> \in Ids \ HalfIds /\ <<"WaveFormSelect">> \in Ids \ HalfIds
  BY <1>2, Tuples, NamesDiffer
<1>5. \A d \in Channels : <<"KeyOn", d>> \notin O
  OBVIOUS
<1>6. \A d \in Channels : /\ <<"KeyOn", d>> # <<"Feedback", c>> /\ <<"KeyOn", d>> # <<"SynthMode", c>>
                         /\ <<"KeyOn", d>> # <<"WaveFormSelect">>
  OBVIOUS
<1> HIDE DEF O, A
<1>7. DOMAIN A \subseteq Ids \ HalfIds
  BY <1>1, <1>3, <1>4
<1>8. NoNote(A)
  BY <1>1, <1>5, <1>6 DEF NoNote
<1>9. Matches(A, A)
  BY <1>7, MatchesItself
<1> QED  BY <1>8, <1>9 DEF A

LEMMA SetInstrumentStep ==
  ASSUME Good(regs), NEW ch \in ChannelsSet, NEW data \in Instruments, NEW volume \in Volumes,
         SetInstrument(ch, data, volume)
  PROVE  Answered /\ NoteStartsInTune'
<1> DEFINE I == loadInstrument(data)
           A == InstrumentFields(ch, Operators, I, volume)
<1>1. ch \in Channels /\ Instrument(I) /\ Good(Fresh)
  BY ArgumentTypes, FreshIsGood
<1>2. regs' = setInstrument(Fresh, ch, I, volume) /\ asked' = A
  BY DEF SetInstrument, Call
<1> HIDE DEF I
<1>3. Did(Fresh, regs', A)
  BY <1>1, <1>2, SetsInstrument
<1>4. Matches(A, A) /\ NoNote(A)
  BY <1>1, InstrumentAsks
<1> QED  BY <1>2, <1>3, <1>4, NoNoteInTune DEF Answered

LEMMA SetDrumInstrumentStep ==
  ASSUME Good(regs), NEW drum \in 0..4, NEW data \in Instruments, NEW volume \in Volumes,
         SetDrumInstrument(drum, data, volume)
  PROVE  Answered /\ NoteStartsInTune'
<1> DEFINE I == loadInstrument(data)
           ch == drumChannels[drum + 1]
           ops == drumOperators[drum + 1]
           A == InstrumentFields(ch, ops, I, volume)
<1>1. ch \in Channels /\ ops \in SUBSET Operators /\ Instrument(I) /\ Good(Fresh)
  BY ArgumentTypes, FreshIsGood, DrumsAre
<1>2. regs' = setDrumInstrument(Fresh, I, drum, volume) /\ asked' = A
  BY DEF SetDrumInstrument, Call
<1> HIDE DEF I
<1>3. Did(Fresh, regs', A)
  BY <1>1, <1>2, SetsDrumInstrument
<1> HIDE DEF ch, ops
<1>4. Matches(A, A) /\ NoNote(A)
  BY <1>1, InstrumentAsks
<1> QED  BY <1>2, <1>3, <1>4, NoNoteInTune DEF Answered
-----------------------------------------------------------------------------
(* The inductive invariant: the shadows are the chip, whatever calls are   *)
(* made; what was asked for is stored, and a note was started in tune.     *)
DriverInv ==
  /\ Good(regs)
  /\ calls \in 0..MaxCalls
  /\ AskedIsStored
  /\ NoteStartsInTune

LEMMA DriverInitInv == DriverInit => DriverInv
<1> SUFFICES ASSUME DriverInit  PROVE DriverInv
  OBVIOUS
<1>1. Good(regs)
  BY BeginIsGood, FreshIs DEF DriverInit
<1>2. DOMAIN asked = {}
  BY DEF DriverInit, NothingAsked
<1>3. calls \in 0..MaxCalls
  BY OPL2Assumption DEF DriverInit
<1> QED  BY <1>1, <1>2, <1>3 DEF DriverInv, AskedIsStored, NoteStartsInTune

LEMMA FieldIdsAreNamed == FieldIds \subseteq Named
<1>1. \A f \in OperatorFieldNames, c \in ChannelsSet, o \in Operators : <<f, c, o>> \in Named
  BY ArgumentTypes, Tuples DEF Named
<1>2. \A f \in DOMAIN FieldsBC, c \in ChannelsSet : <<f, c>> \in Named
  BY ArgumentTypes, Tuples DEF Named
<1>3. \A c \in ChannelsSet : <<"FNumber", c>> \in Named
  BY ArgumentTypes DEF Named, FNumberIds
<1>4. \A f \in DOMAIN ChipFields : <<f>> \in Named
  <2>1. 0 \in Channels
    BY DEF Channels
  <2> QED  BY <2>1, Tuples DEF Named
<1> QED  BY <1>1, <1>2, <1>3, <1>4 DEF FieldIds

LEMMA StepAnswers ==
  ASSUME Good(regs), DriverNext
  PROVE  /\ Answered /\ NoteStartsInTune'
         /\ calls < MaxCalls /\ calls' = calls + 1
<1>1. ASSUME NEW ch \in ChannelsSet, NEW v \in Arguments, NEW f \in OperatorFieldNames, NEW op \in Operators,
             SetOperatorField(f, ch, op, v)
      PROVE  Answered /\ NoteStartsInTune' /\ calls < MaxCalls /\ calls' = calls + 1
  BY <1>1, SetOperatorFieldStep DEF SetOperatorField, Call
<1>2. ASSUME NEW ch \in ChannelsSet, NEW v \in Arguments, NEW f \in DOMAIN FieldsBC, SetChannelField(f, ch, v)
      PROVE  Answered /\ NoteStartsInTune' /\ calls < MaxCalls /\ calls' = calls + 1
  BY <1>2, SetChannelFieldStep DEF SetChannelField, Call
<1>3. ASSUME NEW ch \in ChannelsSet, NEW v \in Arguments, SetChannelVolume(ch, v)
      PROVE  Answered /\ NoteStartsInTune' /\ calls < MaxCalls /\ calls' = calls + 1
  BY <1>3, SetChannelVolumeStep DEF SetChannelVolume, Call
<1>4. ASSUME NEW ch \in ChannelsSet, NEW v \in Arguments, PlayNote(ch, v, v)
      PROVE  Answered /\ NoteStartsInTune' /\ calls < MaxCalls /\ calls' = calls + 1
  BY <1>4, PlayNoteStep DEF PlayNote, Call
<1>5. ASSUME NEW v \in Arguments, NEW f \in DOMAIN ChipFields, SetChipField(f, v)
      PROVE  Answered /\ NoteStartsInTune' /\ calls < MaxCalls /\ calls' = calls + 1
  BY <1>5, SetChipFieldStep DEF SetChipField, Call
<1>6. ASSUME NEW v \in Arguments, NEW drum \in 0..4, PlayDrum(drum, v, v)
      PROVE  Answered /\ NoteStartsInTune' /\ calls < MaxCalls /\ calls' = calls + 1
  BY <1>6, PlayDrumStep DEF PlayDrum, Call
<1>7. ASSUME NEW ch \in ChannelsSet, NEW n \in FNumbers, SetFNumber(ch, n)
      PROVE  Answered /\ NoteStartsInTune' /\ calls < MaxCalls /\ calls' = calls + 1
  BY <1>7, SetFNumberStep DEF SetFNumber, Call
<1>8. ASSUME NEW data \in Instruments, NEW volume \in Volumes, NEW ch \in ChannelsSet, SetInstrument(ch, data, volume)
      PROVE  Answered /\ NoteStartsInTune' /\ calls < MaxCalls /\ calls' = calls + 1
  BY <1>8, SetInstrumentStep DEF SetInstrument, Call
<1>9. ASSUME NEW data \in Instruments, NEW volume \in Volumes, NEW drum \in 0..4, SetDrumInstrument(drum, data, volume)
      PROVE  Answered /\ NoteStartsInTune' /\ calls < MaxCalls /\ calls' = calls + 1
  BY <1>9, SetDrumInstrumentStep DEF SetDrumInstrument, Call
<1> QED  BY <1>1, <1>2, <1>3, <1>4, <1>5, <1>6, <1>7, <1>8, <1>9 DEF DriverNext, Volumes

LEMMA AnsweredIsStored ==
  ASSUME Good(regs), Answered
  PROVE  /\ Good(regs') /\ AskedIsStored'
         /\ \A id \in FieldIds \ DOMAIN asked' : FieldValue(regs', id) = FieldValue(regs, id)
<1>1. PICK A : Did(Fresh, regs', A) /\ Matches(A, asked')
  BY DEF Answered
<1>2. Good(Fresh)
  BY FreshIsGood
<1>3. /\ \A id \in DOMAIN asked' : FieldValue(regs', id) = asked'[id]
      /\ \A id \in Named \ DOMAIN asked' : FieldValue(regs', id) = FieldValue(Fresh, id)
  BY <1>1, <1>2, DoneIsRead
<1>4. ASSUME NEW id \in Named  PROVE FieldValue(Fresh, id) = FieldValue(regs, id)
  <2>1. CASE id \in FNumberIds
    <3>1. PICK c \in Channels : id = <<"FNumber", c>>
      BY <2>1 DEF FNumberIds
    <3>2. <<"High", c>> \in Ids /\ <<"Low", c>> \in Ids
      BY Halves, ChannelId
    <3> QED  BY <1>2, <3>1, <3>2, FieldIs, FreshIsGood
  <2>2. CASE id \notin FNumberIds
    BY <1>2, <2>2, FieldIs, FreshIsGood
  <2> QED  BY <2>1, <2>2
<1>5. Good(regs')
  BY <1>1 DEF Did
<1>6. AskedIsStored'
  BY <1>3 DEF AskedIsStored
<1> QED  BY <1>3, <1>4, <1>5, <1>6, FieldIdsAreNamed

LEMMA DriverNextInv == DriverInv /\ [DriverNext]_driverVars => DriverInv'
<1> SUFFICES ASSUME DriverInv, [DriverNext]_driverVars  PROVE DriverInv'
  OBVIOUS
<1>1. CASE DriverNext
  <2>1. Good(regs) /\ calls \in 0..MaxCalls
    BY DEF DriverInv
  <2>2. Answered /\ NoteStartsInTune' /\ calls < MaxCalls /\ calls' = calls + 1
    BY <1>1, <2>1, StepAnswers
  <2>3. Good(regs') /\ AskedIsStored'
    BY <2>1, <2>2, AnsweredIsStored
  <2>4. calls' \in 0..MaxCalls
    BY <2>1, <2>2, OPL2Assumption
  <2> QED  BY <2>2, <2>3, <2>4 DEF DriverInv
<1>2. CASE UNCHANGED driverVars
  BY <1>2 DEF driverVars, DriverInv, AskedIsStored, NoteStartsInTune
<1> QED  BY <1>1, <1>2

LEMMA DriverInvHolds ==
  ASSUME DriverInv
  PROVE  ChipAsAsked /\ NoteStartsInTune
<1>1. Good(regs) /\ AskedIsStored /\ NoteStartsInTune /\ calls \in 0..MaxCalls
  BY DEF DriverInv
<1>2. DriverTypeOK
  <2>1. regs \in Drivers
    BY <1>1 DEF Good
  <2>2. /\ regs.chipRegisters \in [0..2 -> Byte] /\ regs.channelRegisters \in [0..26 -> Byte]
        /\ regs.operatorRegisters \in [0..89 -> Byte] /\ regs.chip \in [Addresses -> Byte]
    BY <2>1 DEF Drivers
  <2> QED  BY <1>1, <2>2, Zenon DEF DriverTypeOK, Byte
<1>3. ShadowsAreChip
  BY <1>1, SMTT(30) DEF Good, ShadowsAreChip, ChipAddresses, ChannelBases, OperatorBases, Channels, Address
<1> QED  BY <1>1, <1>2, <1>3, Zenon DEF ChipAsAsked
-----------------------------------------------------------------------------
(* Whatever sequence of calls notes and instruments make, every register   *)
(* of the chip holds what its shadow holds, and every field the last call  *)
(* of OPL2.c was to set reads as that call asked: setter, instrument,      *)
(* note or drum, though most fields share a register with others.          *)
THEOREM ChipAsAskedAlways == DriverSpec => []ChipAsAsked
<1>1. DriverInit => DriverInv
  BY DriverInitInv
<1>2. DriverInv /\ [DriverNext]_driverVars => DriverInv'
  BY DriverNextInv
<1>3. DriverInv => ChipAsAsked
  BY DriverInvHolds
<1> QED  BY <1>1, <1>2, <1>3, PTL DEF DriverSpec

(* A call of OPL2.c changes only the fields it sets: the other operator of *)
(* a channel, the other channels, the drums and the fields that share a    *)
(* register with those it writes read afterwards as they did before.       *)
THEOREM CallsKeepOthers == DriverSpec => OthersKept
<1>1. DriverInit => DriverInv
  BY DriverInitInv
<1>2. DriverInv /\ [DriverNext]_driverVars => DriverInv'
  BY DriverNextInv
<1>3. ASSUME DriverInv, DriverNext
      PROVE  \A id \in FieldIds \ DOMAIN asked' : FieldValue(regs', id) = FieldValue(regs, id)
  <2>1. Good(regs)
    BY <1>3 DEF DriverInv
  <2> QED  BY <1>3, <2>1, StepAnswers, AnsweredIsStored
<1>4. DriverInv /\ [DriverNext]_driverVars
        => [\A id \in FieldIds \ DOMAIN asked' : FieldValue(regs', id) = FieldValue(regs, id)]_driverVars
  BY <1>3
<1> QED  BY <1>1, <1>2, <1>4, PTL DEF DriverSpec, OthersKept

(* playNote writes only the two frequency registers of its channel, keyed  *)
(* off until the last write: it never retunes a note that sounds, and the  *)
(* key-on comes after block and F-number are in the chip.                  *)
THEOREM NotesStartInTune == DriverSpec => []NoteStartsInTune
<1>1. DriverInit => DriverInv
  BY DriverInitInv
<1>2. DriverInv /\ [DriverNext]_driverVars => DriverInv'
  BY DriverNextInv
<1>3. DriverInv => NoteStartsInTune
  BY DriverInvHolds
<1> QED  BY <1>1, <1>2, <1>3, PTL DEF DriverSpec
=============================================================================
