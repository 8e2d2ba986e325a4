-------------------------------- MODULE Shell --------------------------------
(***************************************************************************)
(* The line editor of the shell (rtthread/components/finsh/shell.c): what  *)
(* finsh_thread_entry does with one character of input.  The editor's data *)
(* are a record of the fields of struct finsh_shell; strings end with Nul. *)
(* What is echoed is left out, and so is what a command does.              *)
(***************************************************************************)
EXTENDS Integers, FiniteSets, SequencesExt

CONSTANTS
  Text,               \* the printable characters
  FINSH_CMD_SIZE,
  FINSH_HISTORY_LINES,
  Commands,           \* the names of the commands, as sequences
  DeviceBytes         \* how many bytes of the pointer `device' come before one that is 0

Nul == "null"
Arrows == {"A", "B", "C", "D"}
Keys == Text \cup Arrows \cup {Nul, "esc", "[", "tab", "backspace", "enter"}

ASSUME ShellAssumption ==
  /\ FINSH_CMD_SIZE \in Nat \ {0, 1} /\ 2 * FINSH_CMD_SIZE + 3 < 256
  /\ FINSH_HISTORY_LINES \in Nat \ {0} /\ DeviceBytes \in 0..2
  /\ Text \cap {Nul, "esc", "tab", "backspace", "enter"} = {}
  /\ \A c \in Commands : c \in Seq(Text) /\ Len(c) \in 1..FINSH_CMD_SIZE - 1

VARIABLE shell

Index == 0..FINSH_CMD_SIZE - 1
Empty == [i \in Index |-> Nul]

finsh_system_init ==
  shell = [line |-> Empty, line_position |-> 0, line_curpos |-> 0,
           stat |-> "WAIT_NORMAL",
           cmd_history |-> [h \in 0..FINSH_HISTORY_LINES - 1 |-> Empty],
           history_count |-> 0, current_history |-> 0]

(* The string in an array, up to its first Nul.                            *)
strlen(l) == Cardinality({i \in Index : \A j \in 0..i : l[j] # Nul})
String(l) == [i \in 1..strlen(l) |-> l[i - 1]]

(* What strlen(shell->line) gives.  Where the array holds no Nul it goes on*)
(* to the fields behind it: the position, the cursor, and the pointer to   *)
(* the device.                                                             *)
Ends(l) == \E i \in Index : l[i] = Nul

Length(e, l) ==
  IF Ends(l) THEN strlen(l)
  ELSE FINSH_CMD_SIZE + (IF e.line_position = 0 THEN 0
                         ELSE IF e.line_curpos = 0 THEN 1 ELSE 2 + DeviceBytes)

(* The first n characters of an array, and Nul after them.                 *)
FirstOf(l, n) == [i \in Index |-> IF i < n THEN l[i] ELSE Nul]
-----------------------------------------------------------------------------
shell_push_history(e) ==
  LET full  == e.history_count >= FINSH_HISTORY_LINES
      count == IF full THEN FINSH_HISTORY_LINES ELSE e.history_count + 1
      moved == [h \in DOMAIN e.cmd_history |->
                  IF full /\ h < count - 1 THEN e.cmd_history[h + 1] ELSE e.cmd_history[h]]
      again == e.history_count > 0 /\ e.cmd_history[e.history_count - 1] = e.line
      pushed == [e EXCEPT
        !.cmd_history = [moved EXCEPT ![count - 1] = FirstOf(e.line, e.line_position)],
        !.history_count = count]
      kept == IF e.line_position = 0 \/ again THEN e ELSE pushed
  IN  [kept EXCEPT !.current_history = kept.history_count]

Enter(e) ==
  [shell_push_history(e) EXCEPT !.line = Empty, !.line_position = 0, !.line_curpos = 0]

ShowHistory(e, h) ==
  LET n == Length(e, e.cmd_history[h])
  IN  [e EXCEPT !.current_history = h, !.line = e.cmd_history[h],
                !.line_position = n, !.line_curpos = n]

Down(e) ==
  IF e.current_history + 1 < e.history_count THEN ShowHistory(e, e.current_history + 1)
  ELSE IF e.history_count # 0 THEN ShowHistory(e, e.history_count - 1) ELSE e

(* Mutant: the cursor is compared with the size of the array. *)
RightPast(e) ==
  IF e.line_curpos < FINSH_CMD_SIZE THEN [e EXCEPT !.line_curpos = @ + 1] ELSE e

Right(e) ==
  IF e.line_curpos < e.line_position THEN [e EXCEPT !.line_curpos = @ + 1] ELSE e

Arrow(e, key) ==
  CASE key = "A" ->
         IF e.current_history > 0 THEN ShowHistory(e, e.current_history - 1) ELSE e
    [] key = "B" -> Down(e)
    [] key = "C" -> Right(e)
    [] key = "D" ->
         IF e.line_curpos > 0 THEN [e EXCEPT !.line_curpos = @ - 1] ELSE e
-----------------------------------------------------------------------------
(* Completion to what the commands that start with the line have in common.*)
msh_auto_complete(l) ==
  LET fitting == {c \in Commands : IsPrefix(String(l), c)}
      common  == {n \in 1..FINSH_CMD_SIZE - 1 : \A c, d \in fitting :
                    n <= Len(c) /\ n <= Len(d) /\ SubSeq(c, 1, n) = SubSeq(d, 1, n)}
  IN  IF l[0] = Nul \/ fitting = {} THEN l
      ELSE LET n == Cardinality(common) IN
           [i \in Index |-> IF i < n THEN (CHOOSE c \in fitting : TRUE)[i + 1] ELSE l[i]]

Tab(e) ==
  LET l == msh_auto_complete(e.line)
      n == Length(e, l)
  IN  [e EXCEPT !.line = l, !.line_position = n, !.line_curpos = n]

(* Mutant: one character too few is moved. *)
BackspaceShort(e) ==
  IF e.line_curpos = 0 THEN e
  ELSE LET pos == e.line_position - 1
           cur == e.line_curpos - 1
       IN  [e EXCEPT !.line_position = pos, !.line_curpos = cur,
                     !.line = [i \in Index |->
                        IF i = pos THEN Nul
                        ELSE IF i \in cur..pos - 2 THEN e.line[i + 1] ELSE e.line[i]]]

Backspace(e) ==
  IF e.line_curpos = 0 THEN e
  ELSE LET pos == e.line_position - 1
           cur == e.line_curpos - 1
       IN  [e EXCEPT !.line_position = pos, !.line_curpos = cur,
                     !.line = [i \in Index |->
                        IF i = pos THEN Nul
                        ELSE IF i \in cur..pos - 1 THEN e.line[i + 1] ELSE e.line[i]]]

(* A character in the line.  One that fills it clears the line, but not the*)
(* characters in it.                                                       *)
Insert(e, ch) ==
  LET pos == IF e.line_position >= FINSH_CMD_SIZE THEN 0 ELSE e.line_position
      at  == IF e.line_curpos < pos THEN e.line_curpos ELSE pos
      long == pos + 1 >= FINSH_CMD_SIZE
  IN  [e EXCEPT
        !.line = [i \in Index |-> IF i = at THEN ch
                                  ELSE IF i \in at + 1..pos THEN e.line[i - 1]
                                  ELSE e.line[i]],
        !.line_position = IF long THEN 0 ELSE pos + 1,
        !.line_curpos   = IF long THEN 0 ELSE @ + 1]

Edit(e, ch) ==
  CASE ch = Nul         -> e
    [] ch = "tab"       -> Tab(e)
    [] ch = "backspace" -> Backspace(e)
    [] ch = "enter"     -> Enter(e)
    [] OTHER            -> Insert(e, ch)

(* One turn of the loop in finsh_thread_entry.                             *)
finsh_thread_entry(e, ch) ==
  CASE ch = "esc" -> [e EXCEPT !.stat = "WAIT_SPEC_KEY"]
    [] ch = "[" /\ e.stat = "WAIT_SPEC_KEY" -> [e EXCEPT !.stat = "WAIT_FUNC_KEY"]
    [] ch \in Arrows /\ e.stat = "WAIT_FUNC_KEY" ->
         Arrow([e EXCEPT !.stat = "WAIT_NORMAL"], ch)
    [] OTHER -> Edit([e EXCEPT !.stat = "WAIT_NORMAL"], ch)
-----------------------------------------------------------------------------
(* A line that was too long leaves its characters in the array, until the  *)
(* next enter: Tab may find no Nul there.                                  *)
TabOverreads(e, key) == key = "tab" /\ ~Ends(msh_auto_complete(e.line))

(* Later, with the position past the array: Backspace writes its Nul there *)
(* (or everywhere, where a position of 0 becomes 255), and Enter copies    *)
(* more than a place in the history holds.                                 *)
WritesOutside(e, key) ==
  \/ key = "backspace" /\ e.line_curpos > 0 /\ e.line_position \notin 1..FINSH_CMD_SIZE
  \/ key = "enter" /\ e.line_position > FINSH_CMD_SIZE
=============================================================================
