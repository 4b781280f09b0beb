-------------------------------- MODULE IsViewer --------------------------------
(***************************************************************************)
(* pi/is_viewer.c: a debugging device of the cartridge. The guest writes   *)
(* text into its buffer, word by word, and then how many bytes there are;  *)
(* the text is shown when there is a whole line.                           *)
(*                                                                         *)
(* A word has IsWord bytes; the buffer is the text's part of it, behind    *)
(* 0x20. The conversion from EUC to UTF-8 is the library's.                *)
(***************************************************************************)
EXTENDS Integers, Sequences

CONSTANTS
  IsWord,     \* 4: bytes in a word
  IsWords,    \* words in the text's part of the buffer
  IsChars,    \* characters that the guest writes, "nl" among them
  IsLimit     \* bound: characters that the guest writes

\* The byte that ends a text: no character of it.
NUL == "nul"

ASSUME IsAssumption ==
  IsWord \in Nat \ {0} /\ IsWords \in Nat \ {0} /\ IsLimit \in Nat /\ NUL \notin IsChars

VARIABLES
  isv,       \* struct is_viewer: buffer, output_buffer, and what was shown
  istext,    \* what the guest is about to write, and how much of it has a place
  isent      \* history: the text that was written

isVars == <<isv, istext, isent>>

IsBytes == IsWord * IsWords

IsInit ==
  /\ isv = [buffer |-> [k \in 1 .. IsBytes |-> NUL], output |-> <<>>, shown |-> <<>>]
  /\ istext = [text |-> <<>>, at |-> 0]
  /\ isent = <<>>

\* The guest has text to write: not longer than the buffer.
IsBegin ==
  /\ istext.text = <<>>
  /\ \E n \in 1 .. IsBytes : Len(isent) + n <= IsLimit /\ \E t \in [1 .. n -> IsChars] :
       istext' = [text |-> t, at |-> 0]
  /\ UNCHANGED <<isv, isent>>

\* A word of it; the last one is filled up.
IsWrite ==
  LET t == istext.text
      char(k) == IF k <= Len(t) THEN t[k] ELSE NUL
  IN /\ istext.at < Len(t)
     /\ isv' = [isv EXCEPT !.buffer = [k \in DOMAIN @ |->
                  IF k \in istext.at + 1 .. istext.at + IsWord THEN char(k) ELSE @[k]]]
     /\ istext' = [istext EXCEPT !.at = @ + IsWord]
     /\ UNCHANGED isent

HasLine(t) == \E k \in DOMAIN t : t[k] = "nl"

\* Up to a NUL, as strlen counts.
UpToNul(t) == LET z == {k \in DOMAIN t : t[k] = NUL} IN
  IF z = {} THEN t ELSE SubSeq(t, 1, (CHOOSE k \in z : \A j \in z : k <= j) - 1)

\* Mutant of IsOutput: what was shown stays in the output buffer.
IsOutputKept(s, text) ==
  LET all == s.output \o text IN
  IF HasLine(all) THEN [s EXCEPT !.shown = @ \o UpToNul(all), !.output = all]
  ELSE [s EXCEPT !.output = all]

\* The text goes behind what waits; a whole line sends all of it out.
IsOutput(s, text) ==
  LET all == s.output \o text IN
  IF HasLine(all) THEN [s EXCEPT !.shown = @ \o UpToNul(all), !.output = <<>>]
  ELSE [s EXCEPT !.output = all]

\* Offset 0x14: the length. The text is taken from the buffer, which is cleared.
IsLength ==
  LET n == Len(istext.text) IN
  /\ n > 0 /\ istext.at >= n
  /\ isv' = [IsOutput(isv, SubSeq(isv.buffer, 1, n)) EXCEPT
               !.buffer = [k \in DOMAIN @ |-> IF k <= n THEN NUL ELSE @[k]]]
  /\ isent' = isent \o istext.text
  /\ istext' = [text |-> <<>>, at |-> 0]

IsNext == IsBegin \/ IsWrite \/ IsLength

IsSpec == IsInit /\ [][IsNext]_isVars

-----------------------------------------------------------------------------
\* No character is lost, doubled or out of order between the guest and the
\* screen, and no whole line waits.
IsShown == isv.shown \o isv.output = isent /\ ~ HasLine(isv.output)
=============================================================================
