---------------------------- MODULE ToolkitStrings ----------------------------
(***************************************************************************)
(* libnpmtoolkit: get_file_path, hexa_str_to_byte_array and                *)
(* appendStringAtEnd, which make bytes from strings of any characters.     *)
(* Memory is a function from offsets.                                      *)
(***************************************************************************)
EXTENDS Integers, Sequences, FiniteSets

CONSTANTS
  Digit,  (* the digits, as a function from characters to their values       *)
  Other,  (* characters that are neither digits nor listed below             *)
  Longest (* bound on the characters of a string                             *)

NUL == "NUL"

(* No digit is a character that the functions or sscanf() treat otherwise, *)
(* and no character of a string is its end.                                *)
ASSUME StringsAssumption ==
  /\ Longest \in Nat
  /\ (DOMAIN Digit \cup Other) \cap {NUL, "x", " ", "-", "+"} = {}

VARIABLES
  stringCall, (* history: the function that was called and its arguments     *)
  out,        (* what the call wrote, by offset                              *)
  room,       (* history: the bytes that there were for it                   *)
  stringRet

stringVars == <<stringCall, out, room, stringRet>>

FILE_SEPARATOR == "/"
Stale == -1  (* whatever a byte of the caller's memory held before         *)

Chars == DOMAIN Digit \cup Other \cup {"x", " ", "-", "+"}
Strings(n) == UNION {[1 .. k -> Chars] : k \in 0 .. n}

(* The character at an offset; a string ends with its NUL.                 *)
CharAt(s, i) == IF i < Len(s) THEN s[i + 1] ELSE NUL

-----------------------------------------------------------------------------
(* A mutant: the loop over the file name goes on to its end.               *)
PathOfToTheEnd(path, name) ==
  LET path_len  == Len(path) + 1
      total_len == path_len + Len(name) + 1
  IN  [i \in 0 .. total_len |->
         IF i < path_len THEN CharAt(path, i)
         ELSE IF i = path_len THEN FILE_SEPARATOR
         ELSE IF i < total_len THEN CharAt(name, i - path_len - 1)
         ELSE NUL]

(* What get_file_path writes.  path_len counts the NUL of the path, which  *)
(* is copied, and the last character of the name makes room for it.        *)
PathOf(path, name) ==
  LET path_len  == Len(path) + 1
      total_len == path_len + Len(name)
  IN  [i \in 0 .. total_len |->
         IF i < path_len THEN CharAt(path, i)
         ELSE IF i = path_len THEN FILE_SEPARATOR
         ELSE IF i < total_len THEN CharAt(name, i - path_len - 1)
         ELSE NUL]

(* get_file_path, with memory for path, separator, name and NUL.           *)
(* INVALID_ARGUMENT is 1.                                                  *)
GetFilePath(path, name) ==
  /\ stringCall' = <<"get_file_path", path, name>>
  /\ room' = Len(path) + 1 + Len(name) + 1
  /\ IF name = <<>> THEN stringRet' = 1 /\ out' = <<>>
                    ELSE stringRet' = 0 /\ out' = PathOf(path, name)

-----------------------------------------------------------------------------
(* What "%2hhx" makes of the characters c and d that follow white space;   *)
(* the byte stays where nothing matches.  `zero`: does the C library take  *)
(* "0x" for a zero or for no number at all?                                *)
ScanTwo(c, d, zero) ==
  LET two == {c, d} \subseteq DOMAIN Digit
      one == c \in DOMAIN Digit /\ d \notin DOMAIN Digit
      hex == one /\ Digit[c] = 0 /\ d = "x"
  IN  CASE two                               -> 16 * Digit[c] + Digit[d]
        [] one /\ ~(hex /\ ~zero)            -> Digit[c]
        [] c = "+" /\ d \in DOMAIN Digit     -> Digit[d]
        [] c = "-" /\ d \in DOMAIN Digit     -> (256 - Digit[d]) % 256
        [] OTHER                             -> Stale

(* sscanf() on the rest of the input: the first character that is no white *)
(* space may belong to a later pair, or be the NUL.                        *)
Scan(input, from, zero) ==
  LET first == CHOOSE k \in from .. Len(input) :
                 /\ CharAt(input, k) # " "
                 /\ \A j \in from .. k - 1 : CharAt(input, j) = " "
  IN  ScanTwo(CharAt(input, first), CharAt(input, first + 1), zero)

(* A mutant: one character per byte.                                       *)
HexByteHalfway(input, i, zero) == Scan(input, i, zero)

(* The value of output[i].                                                 *)
HexByte(input, i, zero) == Scan(input, 2 * i, zero)

(* hexa_str_to_byte_array, with memory for half of the characters.         *)
HexaStrToByteArray(input) ==
  /\ stringCall' = <<"hexa_str_to_byte_array", input>>
  /\ room' = Len(input) \div 2
  /\ IF input = <<>> \/ Len(input) % 2 # 0
     THEN stringRet' = -1 /\ out' = <<>>
     ELSE /\ stringRet' = 0
          /\ \E zero \in BOOLEAN :
               out' = [i \in 0 .. room' - 1 |-> HexByte(input, i, zero)]

-----------------------------------------------------------------------------
(* The string that begins at offset 0, up to its NUL.                      *)
StringAt(mem) ==
  LET end == CHOOSE n \in 0 .. Cardinality(DOMAIN mem) :
               /\ n \in DOMAIN mem => mem[n] = NUL
               /\ \A i \in 0 .. n - 1 : mem[i] # NUL
  IN  [i \in 1 .. end |-> mem[i - 1]]

(* strcat(): the string and its NUL, from the first NUL on.                *)
Strcat(mem, s) ==
  LET n == Len(StringAt(mem))
  IN  [i \in DOMAIN mem \cup n .. n + Len(s) |->
         IF i \in n .. n + Len(s) THEN CharAt(s, i - n) ELSE mem[i]]

TotalSize(src, content) == Len(src) + Len(content) + 1

(* The memory that malloc() gives, after memset().                         *)
Zeroed(size) == [i \in 0 .. size - 1 |-> NUL]

(* A mutant: the second string is copied over the first.                   *)
AppendStringAtEndCopies(src, content) ==
  /\ stringCall' = <<"appendStringAtEnd", src, content>>
  /\ room' = TotalSize(src, content)
  /\ stringRet' = 0
  /\ out' = Strcat(Zeroed(TotalSize(src, content)), content)

(* appendStringAtEnd: malloc(), memset() and strcat() twice.               *)
AppendStringAtEnd(src, content) ==
  /\ stringCall' = <<"appendStringAtEnd", src, content>>
  /\ room' = TotalSize(src, content)
  /\ stringRet' = 0
  /\ out' = Strcat(Strcat(Zeroed(TotalSize(src, content)), src), content)

-----------------------------------------------------------------------------
StringsInit ==
  stringCall = <<"none">> /\ out = <<>> /\ room = 0 /\ stringRet = 0

(* The functions have no state: one call says all.                         *)
StringsNext ==
  /\ stringCall = <<"none">>
  /\ \/ \E s, t \in Strings(Longest \div 2) :
          GetFilePath(s, t) \/ AppendStringAtEnd(s, t)
     \/ \E s \in Strings(Longest) : HexaStrToByteArray(s)

StringsSpec == StringsInit /\ [][StringsNext]_stringVars

-----------------------------------------------------------------------------
Called(function) == stringCall[1] = function /\ stringRet = 0

(* None of the functions writes behind the memory that there is for it:    *)
(* half of the input for hexa_str_to_byte_array, what malloc() gave to     *)
(* appendStringAtEnd, and for get_file_path what the caller needs for the  *)
(* full path.                                                              *)
WritesFit == DOMAIN out \subseteq 0 .. room - 1

(* A pair of digits is its byte, whatever the other characters of the      *)
(* input are: a pair that is none never shifts those behind it.            *)
PairsAreDecoded ==
  Called("hexa_str_to_byte_array") =>
    LET input == stringCall[2]
    IN  \A i \in 0 .. Len(input) \div 2 - 1 :
          {input[2 * i + 1], input[2 * i + 2]} \subseteq DOMAIN Digit =>
            out[i] = 16 * Digit[input[2 * i + 1]] + Digit[input[2 * i + 2]]

(* appendStringAtEnd returns both strings, the second behind the first.    *)
BothAreAppended ==
  Called("appendStringAtEnd") =>
    StringAt(out) = stringCall[2] \o stringCall[3]

(* What goes into convert.c and stringutils.c comes out, byte for byte.    *)
StringsAreMade == PairsAreDecoded /\ BothAreAppended
=============================================================================
