-------------------------------- MODULE AiText --------------------------------
(***************************************************************************)
(* What ai_insights.c does to a text: json_escape() on its way into a      *)
(* request, extract_text_field() on its way out of an answer, and          *)
(* print_wrapped_text() on its way to the screen.  The module has no       *)
(* steps: the texts are chosen in the initial state.                       *)
(*                                                                         *)
(* A character is a letter, "quote", "back" (the backslash), one of the    *)
(* controls with an escape of its own, "NL", "CR" and "TAB", any other     *)
(* control, "CTL", or "SP".  Of a word only its length counts.             *)
(***************************************************************************)
EXTENDS Integers, Sequences, FiniteSets

CONSTANTS
  Chars,        \* the characters of a text
  MaxChars,     \* bound on its length
  EscapedSize,  \* the size of escaped_prompt (8192)
  OutputSize,   \* the size of the output (8192)
  Lengths,      \* the lengths of words
  MaxWords,     \* bound on their number, line ends included
  WrapWidth     \* AI_WRAP_WIDTH (70)

ASSUME SizesAssumption ==
  EscapedSize \in Nat \ {0} /\ OutputSize \in Nat \ {0} /\ WrapWidth \in Nat \ {0}
ASSUME TextsAssumption ==
  MaxChars \in Nat /\ MaxWords \in Nat /\ Lengths \subseteq Nat \ {0}

VARIABLES
  text,   \* a string without its NUL
  words   \* a text to print: the lengths of its words, 0 for a line end

textVars == <<text, words>>

TextInit ==
  \/ text \in UNION {[1 .. n -> Chars] : n \in 0 .. MaxChars} /\ words = <<>>
  \/ text = <<>> /\ words \in UNION {[1 .. n -> Lengths \union {0}] : n \in 0 .. MaxWords}

-----------------------------------------------------------------------------
(* The code of a character (and a mutant that forgets the backslash).      *)
CodeNoBackslash(c) ==
  CASE c = "quote" -> <<"back", "quote">>
    [] c = "NL" -> <<"back", "n">>
    [] c = "CR" -> <<"back", "r">>
    [] c = "TAB" -> <<"back", "t">>
    [] c = "CTL" -> <<"SP">>
    [] OTHER -> <<c>>
Code(c) ==
  CASE c \in {"quote", "back"} -> <<"back", c>>
    [] c = "NL" -> <<"back", "n">>
    [] c = "CR" -> <<"back", "r">>
    [] c = "TAB" -> <<"back", "t">>
    [] c = "CTL" -> <<"SP">>
    [] OTHER -> <<c>>

(* json_escape(): the buffer after i characters.  The loop ends where      *)
(* fewer than seven bytes are left.  A step that finds no room leaves the  *)
(* buffer alone, and so do all later ones.                                 *)
Buffer[i \in 0 .. Len(text)] ==
  IF i = 0 THEN <<>>
  ELSE IF Len(Buffer[i - 1]) + 6 < EscapedSize THEN Buffer[i - 1] \o Code(text[i])
  ELSE Buffer[i - 1]
Escaped == Buffer[Len(text)]

(* The character a backslash and c stand for.                              *)
Unescaped(c) ==
  CASE c = "n" -> "NL" [] c = "r" -> "CR" [] c = "t" -> "TAB" [] OTHER -> c

(* extract_text_field() from behind "text":" on: esc is set between a      *)
(* backslash and its character, end when the loop has been left.           *)
ExtractStep(s, c) ==
  IF s.end THEN s
  ELSE IF s.esc THEN [s EXCEPT !.out = Append(@, Unescaped(c)), !.esc = FALSE]
  ELSE IF Len(s.out) + 1 >= OutputSize \/ c = "quote" THEN [s EXCEPT !.end = TRUE]
  ELSE IF c = "back" THEN [s EXCEPT !.esc = TRUE]
  ELSE [s EXCEPT !.out = Append(@, c)]
Answered == Append(Escaped, "quote")
Extraction[i \in 0 .. Len(Answered)] ==
  IF i = 0 THEN [out |-> <<>>, esc |-> FALSE, end |-> FALSE]
  ELSE ExtractStep(Extraction[i - 1], Answered[i])
Extracted == Extraction[Len(Answered)].out

-----------------------------------------------------------------------------
(* print_wrapped_text(): the line that is being written, the column where  *)
(* its last word begins, and the code's col and at_line_start (and a       *)
(* mutant that forgets the blank between words).                           *)
TooWideNoBlank(col, len) == col + len > WrapWidth
TooWide(col, len) == col + 1 + len > WrapWidth

PrintWord(c, len) ==
  CASE len = 0 -> [line |-> c.line + 1, from |-> 0, col |-> 0, start |-> TRUE]
    [] len > 0 /\ c.start -> [line |-> c.line, from |-> 0, col |-> len, start |-> FALSE]
    [] len > 0 /\ ~c.start ->
         IF TooWide(c.col, len)
         THEN [c EXCEPT !.line = @ + 1, !.from = 0, !.col = len]
         ELSE [c EXCEPT !.from = c.col + 1, !.col = c.col + 1 + len]
Cursor[w \in 0 .. Len(words)] ==
  IF w = 0 THEN [line |-> 1, from |-> 0, col |-> 0, start |-> TRUE]
  ELSE PrintWord(Cursor[w - 1], words[w])

-----------------------------------------------------------------------------
(* The bytes the whole text needs.                                         *)
CodeLength[i \in 0 .. Len(text)] ==
  IF i = 0 THEN 0 ELSE CodeLength[i - 1] + Len(Code(text[i]))

(* A text that is escaped and then extracted is the same text with other   *)
(* controls blank, cut after a whole character where a buffer was full:    *)
(* whatever quotes, backslashes and letters stand beside each other, no    *)
(* escape is cut in half, no text ends early, neither buffer is overrun.   *)
TextSurvives ==
  LET blanked == [i \in DOMAIN text |-> IF text[i] = "CTL" THEN "SP" ELSE text[i]]
      shown == Len(Extracted)
  IN /\ shown <= Len(text) /\ Extracted = SubSeq(blanked, 1, shown)
     /\ shown < OutputSize /\ Len(Escaped) < EscapedSize
     /\ CodeLength[Len(text)] + 6 <= EscapedSize =>
          shown = Len(text) \/ shown = OutputSize - 1

(* The words are printed in order, a blank or a line end between any two;  *)
(* a line is within the width unless it is one long word; every line end   *)
(* of the text is kept, and lines are broken elsewhere only where the next *)
(* word does not fit.                                                      *)
WordsPrinted(n) == {w \in 1 .. n : words[w] # 0}
LineEnds(n) == {w \in 1 .. n : words[w] = 0}
SoftBreaks(n) ==
  {w \in WordsPrinted(n) : w - 1 \in WordsPrinted(n) /\ Cursor[w].line # Cursor[w - 1].line}

WordsKept ==
  LET n == Len(words)
  IN /\ \A v, w \in WordsPrinted(n) : v < w =>
          \/ Cursor[v].line < Cursor[w].line
          \/ Cursor[v].line = Cursor[w].line /\ Cursor[v].col < Cursor[w].from
     /\ \A w \in WordsPrinted(n) :
          /\ Cursor[w].col = Cursor[w].from + words[w]
          /\ Cursor[w].from = 0 \/ Cursor[w].col <= WrapWidth
     /\ \A w \in SoftBreaks(n) : Cursor[w - 1].col + 1 + words[w] > WrapWidth
     /\ Cursor[n].line = 1 + Cardinality(LineEnds(n)) + Cardinality(SoftBreaks(n))
===============================================================================
