--------------------------- MODULE Keyboard_proof ---------------------------
(***************************************************************************)
(* Proofs about Keyboard for any number of channels, any set of keys and   *)
(* any player.                                                             *)
(***************************************************************************)
EXTENDS Keyboard, FiniteSetTheorems, TLAPS

(* What OneVoicePerKey needs to be inductive: the allocator's two arrays   *)
(* and the chip's KEY ON bits agree, channel by channel, no two channels   *)
(* play the same note, and there are as many of them as keys down.         *)
Agreement ==
  /\ \A i \in Channels : keyOn[i] = noteOn[i]
  /\ \A i \in Channels : ~noteOn[i] => notePlayedNumber[i] = 0
  /\ \A i \in Channels : noteOn[i] => /\ notePlayedNumber[i] \in held
                                      /\ pitch[i] = Pitch(notePlayedNumber[i])

Matching ==
  /\ \A n \in held : \E i \in Channels : Plays(i, n)
  /\ \A i, j \in Channels :
       noteOn[i] /\ noteOn[j] /\ notePlayedNumber[i] = notePlayedNumber[j]
         => i = j

Counting ==
  /\ IsFiniteSet(held)
  /\ Cardinality(On) = Cardinality(held)
  /\ Cardinality(held) <= NumChannels
  /\ notesPlayed = Cardinality(held)

IInv == TypeOK /\ ~hung /\ Agreement /\ Matching /\ Counting

-----------------------------------------------------------------------------
(* The channels are finitely many, so are those that are on.               *)
LEMMA ChannelsFinite ==
  /\ IsFiniteSet(Channels)
  /\ Cardinality(Channels) = NumChannels
  /\ IsFiniteSet(On)
  /\ Cardinality(On) \in Nat
  /\ Cardinality(On) <= NumChannels
<1>1. IsFiniteSet(Channels) /\ Cardinality(Channels) = NumChannels
  BY FS_Interval, VoicesAssumption DEF Channels
<1>2. On \subseteq Channels
  BY DEF On
<1> QED BY <1>1, <1>2, FS_Subset, FS_CardinalityType

(* A pitch the code computes fits the register fields it goes to.          *)
LEMMA PitchType ==
  ASSUME NEW n \in 0..127
  PROVE  Pitch(n) \in [block : 0..NUM_OCTAVES, note : 0..11]
<1> DEFINE octave == (n \div 12 - 2) % 256
<1>1. octave \in 0..255
  OBVIOUS
<1>2. n % 12 \in 0..11
  OBVIOUS
<1> HIDE DEF octave
<1>3. (IF octave > NUM_OCTAVES THEN NUM_OCTAVES ELSE octave) \in 0..NUM_OCTAVES
  BY <1>1 DEF NUM_OCTAVES
<1> QED BY <1>2, <1>3 DEF Pitch, octave

(* The cleared chip and the empty keyboard are of their types.             *)
LEMMA InitType == ASSUME Init PROVE TypeOK
<1>1. [block |-> 0, note |-> 0] \in [block : 0..NUM_OCTAVES, note : 0..11]
  BY DEF NUM_OCTAVES
<1>2. /\ pitch \in [Channels -> [block : 0..NUM_OCTAVES, note : 0..11]]
      /\ notePlayedNumber \in [Channels -> 0..127]
      /\ notesPlayed \in 0..255
  BY <1>1 DEF Init, VoicesInit
<1>3. /\ noteOn \in [Channels -> BOOLEAN]
      /\ keyOn \in [Channels -> BOOLEAN]
      /\ hung \in BOOLEAN
  BY DEF Init, VoicesInit
<1> QED BY <1>2, <1>3 DEF Init, TypeOK, VoicesTypeOK

(* Channel i is taken for note n.                                          *)
Taken(i, n) ==
  /\ Free(i)
  /\ notePlayedNumber' = [notePlayedNumber EXCEPT ![i] = n]
  /\ noteOn' = [noteOn EXCEPT ![i] = TRUE]
  /\ notesPlayed' = (notesPlayed + 1) % 256
  /\ pitch' = [pitch EXCEPT ![i] = Pitch(n)]
  /\ keyOn' = [keyOn EXCEPT ![i] = TRUE]
  /\ UNCHANGED hung

(* A channel note_on takes is written values that fit its registers.       *)
LEMMA TakenType ==
  ASSUME TypeOK, NEW i \in Channels, NEW n \in Notes, Taken(i, n)
  PROVE  VoicesTypeOK'
<1>1. n \in 0..127
  BY VoicesAssumption
<1>2. Pitch(n) \in [block : 0..NUM_OCTAVES, note : 0..11]
  BY <1>1, PitchType
<1>3. notePlayedNumber' \in [Channels -> 0..127]
  BY <1>1 DEF Taken, TypeOK, VoicesTypeOK
<1>4. pitch' \in [Channels -> [block : 0..NUM_OCTAVES, note : 0..11]]
  BY <1>2 DEF Taken, TypeOK, VoicesTypeOK
<1>5. noteOn' \in [Channels -> BOOLEAN] /\ keyOn' \in [Channels -> BOOLEAN]
  BY DEF Taken, TypeOK, VoicesTypeOK
<1>6. notesPlayed' \in 0..255
  BY DEF Taken, TypeOK, VoicesTypeOK
<1> QED BY <1>3, <1>4, <1>5, <1>6 DEF Taken, TypeOK, VoicesTypeOK

(* At start nothing is held, and no channel is on.                         *)
LEMMA InitIInv == ASSUME Init PROVE IInv
<1> USE VoicesAssumption, KeyboardAssumption
<1>1. TypeOK
  BY InitType
<1>2. On = {}
  BY DEF Init, VoicesInit, On
<1>3. Counting
  BY <1>2, FS_EmptySet DEF Counting, Init, VoicesInit
<1> QED BY <1>1, <1>3 DEF IInv, Init, VoicesInit, Agreement, Matching

(* While fewer keys are down than there are channels, one is free.         *)
LEMMA SomeFree ==
  ASSUME IInv, Cardinality(held) < NumChannels
  PROVE  \E i \in Channels : Free(i)
<1>1. On # Channels
  BY ChannelsFinite DEF IInv, Counting
<1>2. PICK i \in Channels : ~noteOn[i]
  BY <1>1 DEF On
<1> QED BY <1>2 DEF IInv, Agreement, Free

(* A key press that does not crowd the channels finds fewer keys down.     *)
LEMMA NotCrowded ==
  ASSUME IInv, NEW n \in Notes, PressKey(n), ~crowded'
  PROVE  Cardinality(held) < NumChannels /\ Cardinality(held) \in Nat
<1>1. ~(Cardinality(held) >= NumChannels)
  BY Zenon DEF PressKey
<1>2. Cardinality(held) \in Nat
  BY FS_CardinalityType DEF IInv, Counting
<1> QED BY <1>1, <1>2, VoicesAssumption

(* A key press that does not crowd the channels takes one and adds a key,  *)
(* a release gives them back.                                              *)
LEMMA PressInv ==
  ASSUME IInv, NEW n \in Notes, PressKey(n), ~crowded'
  PROVE  IInv'
<1> USE VoicesAssumption, KeyboardAssumption
<1>1. Cardinality(held) < NumChannels /\ Cardinality(held) \in Nat
  BY NotCrowded
<1>2. PICK i \in Channels : Taken(i, n)
  BY <1>1, SomeFree DEF PressKey, MIDI_Note_On, Taken
<1>3. n \in 0..127 /\ n \notin held /\ held' = held \cup {n}
  BY DEF PressKey
<1>5. TypeOK'
  BY <1>2, <1>3, TakenType DEF IInv, TypeOK, PressKey
<1> USE DEF Taken
<1>6. Agreement'
  BY <1>2, <1>3 DEF IInv, Agreement, TypeOK, VoicesTypeOK
<1>7. Matching'
  <2>1. \A m \in held' : \E j \in Channels : Plays(j, m)'
    BY <1>2, <1>3 DEF IInv, Matching, Plays, Free, TypeOK, VoicesTypeOK
  <2>2. \A j, k \in Channels :
          noteOn'[j] /\ noteOn'[k] /\ notePlayedNumber'[j] = notePlayedNumber'[k]
            => j = k
    BY <1>2, <1>3 DEF IInv, Matching, Agreement, TypeOK, VoicesTypeOK
  <2> QED BY <2>1, <2>2 DEF Matching
<1>8. Counting'
  <2>1. On' = On \cup {i} /\ i \notin On
    BY <1>2 DEF On, Free, IInv, TypeOK, VoicesTypeOK
  <2>2. IsFiniteSet(held') /\ Cardinality(held') = Cardinality(held) + 1
    BY <1>3, FS_AddElement DEF IInv, Counting
  <2>3. Cardinality(On') = Cardinality(On) + 1
    BY <2>1, ChannelsFinite, FS_AddElement
  <2>4. notesPlayed' = Cardinality(held) + 1
    BY <1>1, <1>2 DEF PressKey, IInv, Counting
  <2> QED BY <1>1, <2>2, <2>3, <2>4 DEF IInv, Counting
<1> QED BY <1>2, <1>5, <1>6, <1>7, <1>8 DEF IInv

(* A release turns off the channel of its key alone, or changes nothing.   *)
LEMMA ReleaseInv ==
  ASSUME IInv, NEW n \in Notes, ReleaseKey(n)
  PROVE  IInv'
<1> USE VoicesAssumption, KeyboardAssumption
<1>1. Release(n)
  BY DEF ReleaseKey, MIDI_Note_Off, IInv, Matching
<1>2. PICK i \in Channels :
        /\ Plays(i, n)
        /\ notePlayedNumber' = [notePlayedNumber EXCEPT ![i] = 0]
        /\ noteOn' = [noteOn EXCEPT ![i] = FALSE]
        /\ keyOn' = [keyOn EXCEPT ![i] = FALSE]
        /\ notesPlayed' = (notesPlayed - 1) % 256
        /\ UNCHANGED <<pitch, hung>>
  BY <1>1 DEF Release
<1>3. n \in held /\ held' = held \ {n}
  BY DEF ReleaseKey
<1>5. TypeOK'
  <2>1. notePlayedNumber' \in [Channels -> 0..127]
    BY <1>2 DEF IInv, TypeOK, VoicesTypeOK
  <2>2. noteOn' \in [Channels -> BOOLEAN] /\ keyOn' \in [Channels -> BOOLEAN]
    BY <1>2 DEF IInv, TypeOK, VoicesTypeOK
  <2>3. notesPlayed' \in 0..255
    BY <1>2 DEF IInv, TypeOK, VoicesTypeOK
  <2>4. held' \subseteq Notes /\ crowded' \in BOOLEAN
    BY DEF ReleaseKey, IInv, TypeOK
  <2> QED BY <2>1, <2>2, <2>3, <2>4, <1>2 DEF IInv, TypeOK, VoicesTypeOK
<1>6. Agreement'
  BY <1>2, <1>3, ZenonT(40) DEF IInv, Agreement, Matching, Plays, TypeOK, VoicesTypeOK
<1>7. Matching'
  <2>1. \A m \in held' : \E j \in Channels : Plays(j, m)'
    BY <1>2, <1>3 DEF IInv, Matching, Plays, TypeOK, VoicesTypeOK
  <2>2. \A j, k \in Channels :
          noteOn'[j] /\ noteOn'[k] /\ notePlayedNumber'[j] = notePlayedNumber'[k]
            => j = k
    BY <1>2 DEF IInv, Matching, TypeOK, VoicesTypeOK
  <2> QED BY <2>1, <2>2 DEF Matching
<1>8. Counting'
  <2>1. On' = On \ {i} /\ i \in On
    BY <1>2 DEF On, Plays, IInv, TypeOK, VoicesTypeOK
  <2>2. IsFiniteSet(held') /\ Cardinality(held') = Cardinality(held) - 1
    BY <1>3, FS_RemoveElement DEF IInv, Counting
  <2>3. Cardinality(On') = Cardinality(On) - 1 /\ Cardinality(On') \in Nat
    BY <2>1, ChannelsFinite, FS_RemoveElement, FS_CardinalityType
  <2>4. notesPlayed' = Cardinality(held) - 1
    <3>1. notesPlayed - 1 \in 0..255
      BY <2>3, ChannelsFinite DEF IInv, Counting, TypeOK, VoicesTypeOK
    <3>2. (notesPlayed - 1) % 256 = notesPlayed - 1
      BY <3>1
    <3> QED BY <1>2, <3>2 DEF IInv, Counting
  <2> QED BY <2>2, <2>3, <2>4, ChannelsFinite DEF IInv, Counting
<1> QED BY <1>2, <1>5, <1>6, <1>7, <1>8 DEF IInv

(* The strengthened invariant reads only the variables of vars.            *)
LEMMA StutterInv == ASSUME IInv, UNCHANGED vars PROVE IInv'
<1>1. /\ noteOn' = noteOn /\ notePlayedNumber' = notePlayedNumber
      /\ notesPlayed' = notesPlayed /\ keyOn' = keyOn /\ pitch' = pitch
      /\ hung' = hung /\ held' = held /\ crowded' = crowded
  BY DEF vars
<1>2. TypeOK'
  BY <1>1 DEF IInv, TypeOK, VoicesTypeOK
<1>3. Agreement'
  BY <1>1 DEF IInv, Agreement
<1>4. Matching'
  BY <1>1 DEF IInv, Matching, Plays
<1>5. Counting'
  BY <1>1 DEF IInv, Counting, On
<1> QED BY <1>1, <1>2, <1>3, <1>4, <1>5 DEF IInv

(* Until the channels are crowded every step keeps the strengthened        *)
(* invariant: one lemma per action.  Once crowded, they stay so.           *)
LEMMA StepInv ==
  ASSUME ~crowded => IInv, [Next]_vars, ~crowded' PROVE ~crowded /\ IInv'
<1>1. ~crowded
  BY DEF Next, PressKey, ReleaseKey, vars
<1> QED BY <1>1, PressInv, ReleaseInv, StutterInv DEF Next

(* Until the channels are crowded, the strengthened invariant holds.       *)
THEOREM Inductive == Spec => [](~crowded => IInv)
<1>1. Init => (~crowded => IInv)
  BY InitIInv
<1>2. (~crowded => IInv) /\ [Next]_vars => (~crowded => IInv)'
  BY StepInv
<1> QED BY <1>1, <1>2, PTL DEF Spec

(* What the invariant says of the notes, all at once.                      *)
LEMMA Allocation == Spec => [](NeverHangs /\ OneVoicePerKey /\ NotesCounted)
<1>1. (~crowded => IInv) => NeverHangs /\ OneVoicePerKey /\ NotesCounted
  <2> SUFFICES ASSUME IInv
               PROVE  NeverHangs /\ OneVoicePerKey /\ NotesCounted
    BY DEF NeverHangs, OneVoicePerKey, NotesCounted
  <2>1. ASSUME NEW n \in held
        PROVE  \E i \in Channels :
                 /\ Plays(i, n) /\ keyOn[i] /\ pitch[i] = Pitch(n)
                 /\ \A j \in Channels \ {i} : ~Plays(j, n)
    BY DEF IInv, Agreement, Matching, Plays
  <2>2. \A i \in Channels : keyOn[i] => notePlayedNumber[i] \in held
    BY DEF IInv, Agreement
  <2> QED BY <2>1, <2>2 DEF IInv, NeverHangs, OneVoicePerKey, NotesCounted, Counting
<1> QED BY <1>1, Inductive, PTL

(* A release finds its note, so MIDI_Note_Off never leaves its arrays.     *)
THEOREM EveryReleaseFound == Spec => []NeverHangs
BY Allocation, PTL

(* Every key that is down sounds alone on its own channel, at its own      *)
(* pitch, and nothing else sounds.                                         *)
THEOREM OwnVoice == Spec => []OneVoicePerKey
BY Allocation, PTL

(* notesPlayed is the number of keys down.                                 *)
THEOREM Counted == Spec => []NotesCounted
BY Allocation, PTL

(* One key pressed or released leaves every other sounding note where it   *)
(* is, at its pitch, without a break.                                      *)
THEOREM Undisturbed == Spec => SoundingUndisturbed
<1> DEFINE Kept == \A i \in Channels :
                     keyOn[i] /\ notePlayedNumber[i] \in held'
                       => keyOn'[i] /\ pitch'[i] = pitch[i]
<1>1. ASSUME IInv, NEW n \in Notes, PressKey(n) PROVE Kept
  <2>1. ASSUME NEW i \in Channels, Free(i)
        PROVE  ~keyOn[i]
    BY <2>1, <1>1 DEF IInv, Agreement, Free
  <2> QED BY <1>1, <2>1
          DEF PressKey, MIDI_Note_On, voiceVars, IInv, TypeOK, VoicesTypeOK
<1>2. ASSUME IInv, NEW n \in Notes, ReleaseKey(n) PROVE Kept
  <2>1. Release(n)
    BY <1>2 DEF ReleaseKey, MIDI_Note_Off, IInv, Matching
  <2> QED BY <1>2, <2>1
          DEF ReleaseKey, Release, Plays, IInv, TypeOK, VoicesTypeOK
<1>3. (~crowded => IInv) /\ [Next]_vars => [~crowded' => Kept]_vars
  BY <1>1, <1>2, StepInv DEF Next
<1> HIDE DEF Kept
<1>4. Spec => [][~crowded' => Kept]_vars
  BY <1>3, Inductive, PTL DEF Spec
<1> QED BY <1>4 DEF SoundingUndisturbed, Kept

(* What one hears is what is held down.                                    *)
LEMMA HeardIsHeld == IInv => Heard = held
<1> SUFFICES ASSUME IInv PROVE Heard = held
  OBVIOUS
<1>1. Heard \subseteq held
  BY DEF Heard, IInv, Agreement
<1>2. held \subseteq Heard
  BY DEF Heard, IInv, Agreement, Matching, Plays
<1> QED BY <1>1, <1>2

(* The allocator and the register writes it makes implement Polyphony.     *)
THEOREM Implementation == Spec => KeepsPromise
<1>1. Init => Promise!Init
  BY InitIInv, HeardIsHeld DEF Init, Promise!Init
<1>h. (IInv => Heard = held)'
  BY HeardIsHeld, PTL
<1>c. \A S : Promise!Cardinality(S) = Cardinality(S)
  BY DEF Promise!Cardinality, Cardinality
<1>2. ASSUME IInv, IInv', NEW n \in Notes, PressKey(n), ~crowded'
      PROVE  Promise!Press(n)
  <2>1. Heard = held /\ Heard' = held'
    BY <1>2, <1>h, HeardIsHeld
  <2>2. Cardinality(held) < NumChannels
    BY <1>2, NotCrowded
  <2> QED BY <1>2, <1>c, <2>1, <2>2 DEF PressKey, Promise!Press
<1>3. ASSUME IInv, IInv', NEW n \in Notes, ReleaseKey(n) PROVE Promise!LetGo(n)
  <2>1. Heard = held /\ Heard' = held'
    BY <1>3, <1>h, HeardIsHeld
  <2> QED BY <1>3, <2>1 DEF ReleaseKey, Promise!LetGo
<1>4. UNCHANGED vars => UNCHANGED <<held, Heard, crowded>>
  BY DEF vars, Heard
<1>5. ASSUME ~crowded => IInv, ~crowded' => IInv', Next, ~crowded'
      PROVE  Promise!Next
  <2>1. IInv /\ IInv'
    BY <1>5, StepInv
  <2> QED BY <1>5, <2>1, <1>2, <1>3 DEF Next, Promise!Next
<1>6. ASSUME crowded \/ IInv, Next, crowded' PROVE Promise!Next
  <2>1. CASE crowded
    BY <1>6, <2>1 DEF Promise!Next
  <2>2. ASSUME ~crowded PROVE Promise!PressTooMany
    <3>1. PICK n \in Notes : PressKey(n)
      BY <1>6, <2>2 DEF Next, ReleaseKey, IInv, TypeOK
    <3>2. Cardinality(held) >= NumChannels
      BY <1>6, <2>2, <3>1 DEF PressKey, IInv, TypeOK
    <3> QED BY <1>6, <1>c, <3>2 DEF Promise!PressTooMany
  <2> QED BY <2>1, <2>2 DEF Promise!Next
<1>7. (~crowded => IInv) /\ (~crowded => IInv)' /\ [Next]_vars
        => [Promise!Next]_<<held, Heard, crowded>>
  BY <1>4, <1>5, <1>6
<1> QED BY <1>1, <1>7, Inductive, PTL DEF Spec, KeepsPromise, Promise!Spec

-----------------------------------------------------------------------------
(* However many keys are down, and whatever a scan beyond the arrays then  *)
(* damages, the state stays well-typed and a channel the allocator takes   *)
(* for free is silent.                                                     *)
LEMMA Damage == Spec => [](TypeOK /\ NeverSoundsWhenFree)
<1> USE VoicesAssumption
<1> DEFINE J == TypeOK /\ NeverSoundsWhenFree
<1>1. Init => J
  BY InitType DEF Init, VoicesInit, NeverSoundsWhenFree
<1>2. ASSUME J, NEW n \in Notes, PressKey(n) PROVE J'
  <2>1. CASE UNCHANGED voiceVars
    BY <1>2, <2>1 DEF PressKey, voiceVars, TypeOK, VoicesTypeOK,
                      NeverSoundsWhenFree
  <2>2. ASSUME NEW i \in Channels, Taken(i, n) PROVE J'
    <3>1. TypeOK'
      BY <1>2, <2>2, TakenType DEF PressKey, TypeOK
    <3>2. NeverSoundsWhenFree'
      BY <1>2, <2>2 DEF Taken, NeverSoundsWhenFree, TypeOK, VoicesTypeOK
    <3> QED BY <3>1, <3>2
  <2> QED BY <1>2, <2>1, <2>2 DEF PressKey, MIDI_Note_On, Taken
<1>3. ASSUME J, NEW n \in Notes, ReleaseKey(n) PROVE J'
  <2>1. held' \subseteq Notes /\ crowded' \in BOOLEAN
    BY <1>3 DEF ReleaseKey, TypeOK
  <2>2. CASE Release(n)
    <3>1. PICK i \in Channels :
            /\ notePlayedNumber' = [notePlayedNumber EXCEPT ![i] = 0]
            /\ noteOn' = [noteOn EXCEPT ![i] = FALSE]
            /\ keyOn' = [keyOn EXCEPT ![i] = FALSE]
            /\ notesPlayed' = (notesPlayed - 1) % 256
            /\ UNCHANGED <<pitch, hung>>
      BY <2>2 DEF Release
    <3>2. notesPlayed' \in 0..255
      BY <1>3, <3>1 DEF TypeOK, VoicesTypeOK
    <3>3. notePlayedNumber' \in [Channels -> 0..127]
      BY <1>3, <3>1 DEF TypeOK, VoicesTypeOK
    <3>4. noteOn' \in [Channels -> BOOLEAN] /\ keyOn' \in [Channels -> BOOLEAN]
      BY <1>3, <3>1 DEF TypeOK, VoicesTypeOK
    <3> QED BY <1>3, <2>1, <3>1, <3>2, <3>3, <3>4
            DEF TypeOK, VoicesTypeOK, NeverSoundsWhenFree
  <2>3. ASSUME NEW j \in Aliased \cup Beyond, MatchOutside(j) PROVE J'
    <3>1. j \in Nat /\ j % NumChannels \in Channels
      BY DEF Aliased, Beyond, Channels
    <3>2. notePlayedNumber' \in [Channels -> 0..127]
      <4>1. notePlayedNumber' = notePlayedNumber
              \/ \E i \in Channels :
                   notePlayedNumber' = [notePlayedNumber EXCEPT ![i] = 0]
        BY <2>3 DEF MatchOutside, Aliased, Channels
      <4> QED BY <1>3, <4>1 DEF TypeOK, VoicesTypeOK
    <3>3. notesPlayed' \in 0..255
      BY <1>3, <2>3 DEF MatchOutside, TypeOK, VoicesTypeOK
    <3>4. keyOn' \in [Channels -> BOOLEAN]
      BY <1>3, <2>3 DEF MatchOutside, TypeOK, VoicesTypeOK
    <3> QED BY <1>3, <2>1, <2>3, <3>1, <3>2, <3>3, <3>4
            DEF MatchOutside, TypeOK, VoicesTypeOK, NeverSoundsWhenFree
  <2>4. CASE ScanForEver
    BY <1>3, <2>1, <2>4
       DEF ScanForEver, TypeOK, VoicesTypeOK, NeverSoundsWhenFree
  <2> QED BY <1>3, <2>2, <2>3, <2>4 DEF ReleaseKey, MIDI_Note_Off
<1>4. J /\ UNCHANGED vars => J'
  BY DEF vars, TypeOK, VoicesTypeOK, NeverSoundsWhenFree, Channels
<1>5. J /\ [Next]_vars => J'
  BY <1>2, <1>3, <1>4 DEF Next
<1> QED BY <1>1, <1>5, PTL DEF Spec

(* Damage or not, the allocator's variables keep their types.              *)
THEOREM TypeCorrect == Spec => []TypeOK
BY Damage, PTL

(* However many keys are down, a key press picks a channel that is silent. *)
THEOREM FreeIsSilent == Spec => []NeverSoundsWhenFree
BY Damage, PTL
=============================================================================
