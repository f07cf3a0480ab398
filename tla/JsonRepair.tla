------------------------------- MODULE JsonRepair -------------------------------
(***************************************************************************)
(* StructuredOutputParser.repair_truncated_json of                         *)
(* turing/serving/structured.py with the scanner it takes from             *)
(* csrc/turing_json_fast_scan.hpp when the extension is built: the JSON    *)
(* text of a model, cut off at any symbol, is made whole.                  *)
(*                                                                         *)
(* A symbol is a bracket, a "quote", an "escape", a "comma", a "colon" or  *)
(* "x" for any other.                                                      *)
(***************************************************************************)
EXTENDS Integers, Sequences, SequencesExt

CONSTANTS
  JsonSymbols,  (* the symbols of a text                                   *)
  MaxText,      (* bound of the model: symbols of a text                   *)
  BlockWidth    (* characters that the scanner takes at once: 32 with      *)
                (* AVX2, otherwise 1                                       *)

ASSUME JsonAssumption == MaxText \in Nat /\ BlockWidth \in Nat \ {0}

VARIABLE jsonText  (* what the model has emitted                           *)

JsonInit == jsonText = <<>>

EmitSymbol(c) ==
  /\ Len(jsonText) < MaxText
  /\ jsonText' = Append(jsonText, c)

JsonNext == \E c \in JsonSymbols : EmitSymbol(c)

JsonSpec == JsonInit /\ [][JsonNext]_jsonText

-----------------------------------------------------------------------------
Opening == {"{", "["}
Closer == [c \in Opening |-> IF c = "{" THEN "}" ELSE "]"]
Syntax == Opening \cup {"}", "]", "quote", "escape"}

Unscanned == [escaped |-> FALSE, string |-> FALSE, stack |-> <<>>]

(* The scanner's state, one symbol later.                                  *)
Scanned(s, c) ==
  LET matched == s.stack # <<>> /\ Closer[Last(s.stack)] = c
  IN IF s.escaped THEN [s EXCEPT !.escaped = FALSE]
     ELSE IF c = "escape" THEN [s EXCEPT !.escaped = TRUE]
     ELSE IF c = "quote" THEN [s EXCEPT !.string = ~@]
     ELSE IF s.string THEN s
     ELSE IF c \in Opening THEN [s EXCEPT !.stack = Append(@, c)]
     ELSE IF matched THEN [s EXCEPT !.stack = Front(@)] ELSE s

(* The scanner behind a text of which it passes some symbols by unseen.    *)
ScanPast(text, skipped) ==
  LET upto[i \in 0 .. Len(text)] ==
        IF i = 0 THEN Unscanned
        ELSE IF i \in skipped THEN upto[i - 1] ELSE Scanned(upto[i - 1], text[i])
  IN upto[Len(text)]

Scan(text) == ScanPast(text, {})

(* With AVX2 a whole block without a symbol of Syntax is skipped unseen.   *)
Skipped(text) ==
  {i \in DOMAIN text :
     LET first == ((i - 1) \div BlockWidth) * BlockWidth + 1
     IN /\ BlockWidth > 1
        /\ first + BlockWidth - 1 <= Len(text)
        /\ \A j \in first .. first + BlockWidth - 1 : text[j] \notin Syntax}

BlockScan(text) == ScanPast(text, Skipped(text))

EndsIn(text, c) == text # <<>> /\ Last(text) = c

(* A comma at the end goes, then a colon at the end gets its null.         *)
Tidied(text) ==
  LET short == IF EndsIn(text, "comma") THEN Front(text) ELSE text
  IN IF EndsIn(short, "colon") THEN Append(short, "x") ELSE short

(* Mutant: the containers are closed from the outermost.                   *)
ClosersOutsideIn(stack) == [i \in DOMAIN stack |-> Closer[stack[i]]]

Closers(stack) == Reverse([i \in DOMAIN stack |-> Closer[stack[i]]])

ClosingQuote(s) == IF s.string THEN <<"quote">> ELSE <<>>

RepairedInPython(text) ==
  LET s == Scan(text)
  IN IF text = <<>> THEN <<"{", "}">> ELSE Tidied(text \o ClosingQuote(s)) \o Closers(s.stack)

(* The extension gives the suffix; the text is tidied without it.          *)
RepairedNatively(text) ==
  LET s == BlockScan(text)
      suffix == ClosingQuote(s) \o Closers(s.stack)
  IN IF suffix = <<>> THEN RepairedInPython(text) ELSE Tidied(text) \o suffix

-----------------------------------------------------------------------------
IsWholeText(text) == Scan(text) = Unscanned

(* The last symbol is an escape, or stands behind one.                     *)
EndsEscaped ==
  jsonText # <<>> /\ (Scan(jsonText).escaped \/ Scan(Front(jsonText)).escaped)

(* A block is skipped right behind an escape, which then stays pending.    *)
SkipsEscaped == \E i \in Skipped(jsonText) : Scan(SubSeq(jsonText, 1, i - 1)).escaped

(* Wherever the text was cut and however it lies in the scanner's blocks,  *)
(* its string and all its containers are closed in the right order in both *)
(* builds, except when the cut falls on an escape, or when the native scan *)
(* skips the symbol that is escaped (repair_truncated_json).               *)
RepairCloses ==
  ~EndsEscaped =>
    /\ IsWholeText(RepairedInPython(jsonText))
    /\ ~SkipsEscaped => IsWholeText(RepairedNatively(jsonText))

=============================================================================
