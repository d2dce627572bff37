------------------------------- MODULE Config -------------------------------
(***************************************************************************)
(* The configuration of a terminal: defaults, the first file that can be   *)
(* opened, and the arguments, in this order (config.c).                    *)
(*                                                                         *)
(* A line of the file is a sequence of words.  One option stands for each  *)
(* type of value: rows for the numbers, audible_bell for the flags,        *)
(* bgcolor for the colours, command for the strings.                       *)
(***************************************************************************)
EXTENDS Naturals, SequencesExt

CONSTANT LineLength     \* words that fgets reads of a line, at most

ASSUME ConfigAssumption == LineLength \in Nat \ {0}

Keys == {"rows", "audible_bell", "bgcolor", "command"}
Words == Keys \cup {"=", "#", "30", "0", "true", "false", "#ff0000", "odd", "runesc", "--"}

\* Where a file is looked for: $XDG_CONFIG_HOME/runes, $HOME, /etc.
Places == <<"xdg", "home", "etc">>
\* A file, and whether its last line ends in a newline.
Files == [lines : Seq(Seq(Words)), newline : BOOLEAN]
Missing == [lines |-> <<>>, newline |-> FALSE]

Defaults == [rows |-> 24, audible_bell |-> TRUE, bgcolor |-> "black", command |-> <<>>]

-----------------------------------------------------------------------------
(* The values: what becomes of a text, a sequence of words *)

Atoi(word) == CASE word = "30" -> 30 [] OTHER -> 0

ParseUint(text) == IF text = <<>> THEN 0 ELSE Atoi(text[1])

ParseBool(text) == text = <<"true">>

\* runes_config_set.  A number or a flag that is not one is used all the
\* same, a colour that is not one is not.
Set(c, key, text) ==
    CASE key = "rows" -> [c EXCEPT !.rows = ParseUint(text)]
      [] key = "audible_bell" -> [c EXCEPT !.audible_bell = ParseBool(text)]
      [] key = "bgcolor" -> IF text = <<"#ff0000">> THEN [c EXCEPT !.bgcolor = "red"] ELSE c
      [] key = "command" -> [c EXCEPT !.command = text]
      [] OTHER -> c

-----------------------------------------------------------------------------
(* The file *)

\* runes_config_get_config_file
ConfigFile(files) ==
    LET there == {i \in DOMAIN Places : files[Places[i]] # Missing}
    IN  IF there = {} THEN Missing ELSE files[Places[Min(there)]]

\* fgets: what is read of a line, and what is left of it.
Cut(line) == Len(line) >= LineLength
Piece(line) == IF Cut(line) THEN SubSeq(line, 1, LineLength) ELSE line
Rest(line) == SubSeq(line, LineLength + 1, Len(line))

IsComment(piece) == piece = <<>> \/ piece[1] \in {"#", "#ff0000"}

\* A word without its first letter.
Shortened(word) == IF word = "30" THEN "0" ELSE "odd"

\* Memory behind the end of the line: what an earlier line left there.
Stale == {<<>>} \cup {<<w>> : w \in {"30", "true", "odd"}}

\* The texts that the key of a piece may be set to.  Without a '=' the text
\* is used without its first letter; where there is none it is what follows
\* the end of the line, which is empty behind a newline.
TextsOf(piece, newline) ==
    LET rest == IF piece[1] = "=" THEN piece ELSE Tail(piece)
    IN  CASE rest = <<>> -> IF newline THEN {<<>>} ELSE Stale
          [] rest # <<>> /\ rest[1] = "=" -> {Tail(rest)}
          [] OTHER -> {<<Shortened(rest[1])>> \o Tail(rest)}

\* One iteration of runes_config_process_config_file.
ProcessLine(c, piece, newline) ==
    IF IsComment(piece) THEN {c}
    ELSE {Set(c, piece[1], text) : text \in TextsOf(piece, newline)}

-----------------------------------------------------------------------------
(* The arguments *)

IsOption(arg) == arg # <<>> /\ arg[1] = "--"

\* What follows the "--", which may be nothing.
Option(arg) == IF Len(arg) > 1 THEN arg[2] ELSE "none"

\* One iteration of runes_config_process_args: an option takes the next
\* argument, whatever it is.
HasValue(argv, i) == IsOption(argv[i]) /\ i < Len(argv)

ProcessArg(c, argv, i) ==
    IF HasValue(argv, i) THEN Set(c, Option(argv[i]), argv[i + 1]) ELSE c

\* Mutant: the value of an option is looked at as an option, too.
NextArgOne(argv, i) == i + 1

NextArg(argv, i) == IF HasValue(argv, i) THEN i + 2 ELSE i + 1

=============================================================================
