------------------------------ MODULE Console ------------------------------
(***************************************************************************)
(* shell.c and gets of libc/stdio.c on the screen of Terminal, the keyboard*)
(* buffer and the clock of Rtc: what the kernel thread does once the       *)
(* kernel has booted.  Keys may be pressed between any two of its steps.   *)
(*                                                                         *)
(* The keyboard buffer is the Deque that RingBuffer implements: what a key *)
(* pressed inside a pop can do is Keyboard's subject.  gets ignores its    *)
(* size argument: what follows an overrun of shell_main's array is left    *)
(* out, and gets takes no character that a line of MaxLine has no room     *)
(* for.  A text printed is one glyph for each of its fields.               *)
(***************************************************************************)
EXTENDS Terminal, Rtc

CONSTANTS
  BUFFER_SIZE,
  Commands,     \* the list of commands: their name, and what they do
  Letters,      \* the characters keys have, next to newline and backspace
  Prompt,       \* what shell_main prints
  MaxLine,      \* bound on the line: the length of shell_main's array
  MaxBlocks,    \* bound on the blocks of the heap that memory lists
  MaxKeys       \* bound on the number of key presses

Actions == {"help", "systime", "memory", "clear", "date"}

(***************************************************************************)
(* The prompt and the names hold no newline.  A row of the screen holds    *)
(* more than one character, and the rows above the last one hold a line:   *)
(* the code has 80, 24 times 80, and a line of 250.                        *)
(***************************************************************************)
ASSUME ConsoleConstants ==
  /\ BUFFER_SIZE \in Nat \ {0}
  /\ Commands \in Seq([name : Seq(STRING \ {NL}), does : Actions])
  /\ Prompt \in Seq(STRING \ {NL}) /\ Len(Prompt) > 1
  /\ Letters \cap {NL, BS} = {}
  /\ VGA_WIDTH > 1
  /\ MaxLine \in Nat /\ MaxLine <= VGA_WIDTH * (VGA_HEIGHT - 1)
  /\ {MaxKeys, MaxBlocks} \subseteq Nat

VARIABLES
  term,       \* the screen
  waiting,    \* the characters in kbuff
  char,       \* gets: the character it popped last
  line,       \* shell_main: command, as far as gets has filled it
  pc,         \* the kernel thread: "prompt", "gets", "run", or the command it runs
  keys        \* key presses so far

shell == <<term, line, pc>>
kbuff == <<waiting, char>>
vars == <<shell, kbuff, keys, rtcVars>>

Typed == Letters \cup {NL, BS}
NoChar == "none"
Kbuff == INSTANCE Deque WITH Capacity <- BUFFER_SIZE, Item <- Typed, None <- NoChar,
                             items <- waiting, got <- char

TypeOK ==
  /\ RtcTypeOK
  /\ term.row \in 0 .. VGA_HEIGHT /\ term.column \in -MaxKeys .. VGA_WIDTH - 1
  /\ DOMAIN term.cell = Cell /\ Place(term) \in Cell
  /\ waiting \in Seq(Typed) /\ Len(waiting) <= BUFFER_SIZE
  /\ char \in Typed \cup {NoChar}
  /\ line \in Seq(Typed \ {NL}) /\ Len(line) <= MaxLine
  /\ pc \in {"prompt", "gets", "run"} \cup Actions
  /\ keys \in 0 .. MaxKeys

\* kernel_main from its last terminal_clear on.
Init ==
  /\ RtcInit
  /\ term = terminal_clear(terminal_initialize)
  /\ Kbuff!Init
  /\ line = <<>> /\ pc = "prompt" /\ keys = 0

-----------------------------------------------------------------------------
\* IRQ 1, between any two steps of the kernel thread.
keyboard_handler(c) ==
  /\ keys < MaxKeys
  /\ keys' = keys + 1
  /\ Kbuff!PushBack(c)
  /\ UNCHANGED <<shell, rtcVars>>

printf(s) == term' = terminal_write(term, s)

shell_main ==
  /\ pc = "prompt"
  /\ printf(Prompt)
  /\ line' = <<>> /\ pc' = "gets"
  /\ UNCHANGED <<kbuff, keys, rtcVars>>

\* Slip: a backspace counts on an empty line too.
Erases_Unguarded(c) == c = BS

Erases(c) == c = BS /\ Len(line) > 0

(***************************************************************************)
(* One character: gets pops the one pressed last.                          *)
(***************************************************************************)
gets ==
  /\ pc = "gets"
  /\ Kbuff!PopBack
  /\ LET c == char' IN
       \/ /\ c = NL
          /\ printf(<<NL>>)
          /\ pc' = "run" /\ UNCHANGED line
       \/ /\ c # NL /\ Erases(c)
          /\ term' = terminal_remove_last_char(term)
          /\ line' = SubSeq(line, 1, Len(line) - 1) /\ UNCHANGED pc
       \/ /\ c # NL /\ ~Erases(c) /\ Len(line) < MaxLine
          /\ printf(<<c>>)
          /\ line' = Append(line, c) /\ UNCHANGED pc
  /\ UNCHANGED <<keys, rtcVars>>

(***************************************************************************)
(* run_program: the first command of the list that strcmp accepts.  strcmp *)
(* stops at the end of the command's name, so a line that goes on after    *)
(* the name is accepted as well.                                           *)
(***************************************************************************)
strcmp(name, text) == IF IsPrefix(name, text) THEN 0 ELSE 1

Accepted == {i \in DOMAIN Commands : strcmp(Commands[i].name, line) = 0}
First == CHOOSE i \in Accepted : \A j \in Accepted : i <= j

run_program ==
  /\ pc = "run" /\ Accepted # {}
  /\ pc' = Commands[First].does
  /\ IF pc' = "date" THEN read_rtc ELSE UNCHANGED rtcVars
  /\ UNCHANGED <<term, line, kbuff, keys>>

not_found ==
  /\ pc = "run" /\ Accepted = {}
  /\ printf(line \o <<":", NL>>)
  /\ pc' = "prompt"
  /\ UNCHANGED <<line, kbuff, keys, rtcVars>>

Done(command) ==
  /\ pc = command /\ pc' = "prompt"
  /\ UNCHANGED <<line, kbuff, keys>>

Entry(command) == <<"|">> \o command.name \o <<"|", NL>>

command_help ==
  /\ Done("help") /\ UNCHANGED rtcVars
  /\ printf(FoldLeft(LAMBDA text, command : text \o Entry(command), <<"|", NL>>, Commands))

command_clear == Done("clear") /\ term' = terminal_clear(term) /\ UNCHANGED rtcVars

clock_command_timesys == Done("systime") /\ printf(<<"#", NL>>) /\ UNCHANGED rtcVars

\* A heading and a line for each block of the heap, however many there are.
Table(lines) == [i \in 1 .. 2 * lines |-> IF i % 2 = 1 THEN "|" ELSE NL]

heap_stats ==
  /\ Done("memory") /\ UNCHANGED rtcVars
  /\ \E blocks \in 1 .. MaxBlocks : printf(Table(1 + blocks))

\* read_rtc goes on until it has a date, which is then printed.
format_date ==
  /\ pc = "date" /\ reader
  /\ UNCHANGED <<shell, kbuff, keys>>

print_date == Done("date") /\ date_used /\ printf(<<"/", ":", NL>>)

kernel_thread ==
  \/ shell_main
  \/ gets
  \/ run_program
  \/ not_found
  \/ command_help
  \/ command_clear
  \/ clock_command_timesys
  \/ heap_stats
  \/ format_date
  \/ print_date

chip_updates == update /\ UNCHANGED <<shell, kbuff, keys>>
chip_announces == announce /\ UNCHANGED <<shell, kbuff, keys>>

Next ==
  \/ kernel_thread
  \/ chip_announces
  \/ chip_updates
  \/ \E c \in Typed : keyboard_handler(c)

(***************************************************************************)
(* The kernel thread is the only one and never blocks; the clock ends an   *)
(* update that it has announced.  Nobody has to press a key.               *)
(***************************************************************************)
Spec == Init /\ [][Next]_vars /\ WF_vars(kernel_thread) /\ WF_vars(chip_updates)

-----------------------------------------------------------------------------
(***************************************************************************)
(* While gets waits, the screen shows the line it has: the last characters *)
(* of the prompt and then those of the line stand right before the place   *)
(* the next character goes to, and nothing stands behind, through wrapping,*)
(* scrolling, backspaces past the beginning of a row, and backspaces on an *)
(* empty line, which are stored like letters.  So a backspace takes away   *)
(* the character it should, and never the prompt.  The first row is left   *)
(* out: a scroll does not move a line into it.  So is the first character  *)
(* of the prompt: terminal_putchar loses it when it follows a newline in   *)
(* the last row.                                                           *)
(***************************************************************************)
Shown == Tail(Prompt) \o line

Echo ==
  pc = "gets" =>
    /\ \A i \in DOMAIN Shown :
         LET index == Place(term) - Len(Shown) + i - 1
         IN index >= VGA_WIDTH => index \in Visible /\ term.cell[index] = Shown[i]
    /\ \A index \in Visible : index >= Place(term) => term.cell[index] = Blank

(***************************************************************************)
(* Every line is answered by a new prompt: whatever keys come and however  *)
(* the clock ticks while date reads it, the shell gets back to gets.       *)
(***************************************************************************)
Answers == pc # "gets" ~> pc = "gets"
=============================================================================
