------------------------------- MODULE Printf -------------------------------
(***************************************************************************)
(* kernel/src/sprintf.c and vprintk.c: the format is read character by     *)
(* character, with the state of the conversion in a context, and what it   *)
(* gives goes through one function that knows the size of the buffer.      *)
(*                                                                         *)
(* The characters of the format and the arguments are chosen as they are   *)
(* read.  Integers are as small as IntSize and LongSize say; the values of *)
(* a long are written as unsigned.                                         *)
(***************************************************************************)
EXTENDS Integers, Sequences, SequencesExt

CONSTANTS
    Characters, \* what a format is made of
    MaxFormat,  \* bound on its length
    Longs,      \* the numbers that may be passed
    Strings,    \* the strings that may be passed
    Sizes,      \* the values of p_size; vsprintf has no limit
    IntSize,    \* an int has this many values,
    LongSize,   \* a long has this many,
    ScratchSize \* and l_buffer this many characters

ASSUME PrintfAssumption ==
    /\ MaxFormat \in Nat /\ Sizes \subseteq Nat \ {0} /\ ScratchSize \in Nat
    /\ IntSize \in Nat \ {0} /\ LongSize \in Nat \ {0}
    /\ Longs \subseteq 0 .. LongSize - 1
    /\ \A string \in Strings : string \in Seq(Range(string))

VARIABLES
    limit,      \* m_sizeLimit, or NoLimit
    left,       \* how much of the format may still come
    ctx,        \* the other fields of the context
    buffer,     \* what has been written to p_buffer: m_index is its length
    level,      \* whether the format starts with a digit from 0 to 7
    port,       \* what vprintk has sent to the port at the end
    full,       \* history: what would have been written without a limit
    spec,       \* history: the characters since the last % in START
    last,       \* history: the last number that was converted
    undefined   \* history: the code has written outside l_buffer, or a sum has overflowed

printfVars == <<limit, left, ctx, buffer, level, port, full, spec, last, undefined>>

NoLimit == -1
Blank == " "
DigitChar == <<"0", "1", "2", "3", "4", "5", "6", "7", "8", "9", "a", "b", "c", "d", "e", "f">>
DecimalDigits == {DigitChar[i] : i \in 1 .. 10}
DigitValue(ch) == CHOOSE v \in 0 .. 15 : DigitChar[v + 1] = ch

Cleared == [padZero |-> FALSE, prefix |-> FALSE, long |-> FALSE, hasMin |-> FALSE, min |-> 0,
            hasMax |-> FALSE, max |-> 0, state |-> "START"]
NoNumber == [spec |-> <<>>, arg |-> 0, text |-> <<>>]

\* vsnprintf and vsprintf.
PrintfInit ==
    /\ limit \in {s - 1 : s \in Sizes} \cup {NoLimit}
    /\ left = MaxFormat
    /\ ctx = Cleared
    /\ buffer = <<>> /\ full = <<>>
    /\ level = FALSE /\ port = <<>>
    /\ spec = <<>> /\ last = NoNumber /\ undefined = FALSE

-----------------------------------------------------------------------------
\* Mutant: the last byte of the buffer is not kept for the zero.
Fits_LastByte(length) == IF limit = NoLimit \/ length <= limit THEN length ELSE limit + 1

\* How much of a text goes into the buffer.
Fits(length) == IF limit = NoLimit \/ length <= limit THEN length ELSE limit

\* vsprintf_generic_out, for all the characters of a text.
vsprintf_generic_out(text) ==
    /\ full' = full \o text
    /\ buffer' = buffer \o SubSeq(text, 1, Fits(Len(buffer) + Len(text)) - Len(buffer))

Number(n, base) ==
    LET digits[k \in Nat] == IF k < base THEN <<DigitChar[k + 1]>>
                             ELSE Append(digits[k \div base], DigitChar[(k % base) + 1])
    IN  digits[n]

\* What %d, %p, %u and %x have in common: the sign or prefix, filler up to the
\* minimum length, and the digits.
Convert(ch, arg, sign, n, base) ==
    LET min == ctx.min - Len(sign)
        digits == Number(n, base)
        missing == IF ctx.hasMin /\ Len(digits) < min THEN min - Len(digits) ELSE 0
        text == sign \o [i \in 1 .. missing |-> IF ctx.padZero THEN "0" ELSE Blank] \o digits
    IN  /\ vsprintf_generic_out(text)
        /\ last' = [spec |-> Append(spec, ch), arg |-> arg, text |-> text]
        /\ undefined' = (undefined \/ missing + Len(digits) > ScratchSize)
        /\ ctx' = [ctx EXCEPT !.state = "START"]

Signed(v, size) == IF 2 * v >= size THEN v - size ELSE v

ToWidth(arg) == IF ctx.long THEN arg ELSE arg % IntSize

\* The opposite of the least long overflows: no digits then make sense.
ConvertD(arg) ==
    LET value == IF ctx.long THEN Signed(arg, LongSize) ELSE Signed(arg % IntSize, IntSize)
    IN  IF value = -(LongSize \div 2)
        THEN /\ undefined' = TRUE
             /\ UNCHANGED <<ctx, buffer, full, last>>
        ELSE IF value < 0 THEN Convert("d", arg, <<"-">>, -value, 10)
        ELSE Convert("d", arg, <<>>, value, 10)

ConvertS(string) ==
    LET length == IF ctx.hasMax /\ ctx.max < Len(string) THEN ctx.max ELSE Len(string)
    IN  /\ vsprintf_generic_out(SubSeq(string, 1, length))
        /\ ctx' = [ctx EXCEPT !.state = "START"]
        /\ UNCHANGED <<last, undefined>>

\* vsprintf_generic_checkAction.  A percent sign is put out but does not end the
\* conversion; a character that means nothing ends it and is not put out.
vsprintf_generic_checkAction(ch) ==
    \/ /\ ch = "%"
       /\ vsprintf_generic_out(<<"%">>)
       /\ UNCHANGED <<ctx, last, undefined>>
    \/ /\ ch = "l"
       /\ ctx' = [ctx EXCEPT !.long = TRUE, !.state = "ACTION_L"]
       /\ UNCHANGED <<buffer, full, last, undefined>>
    \/ /\ ch = "c"
       /\ vsprintf_generic_out(<<"c">>)
       /\ ctx' = [ctx EXCEPT !.state = "START"]
       /\ UNCHANGED <<last, undefined>>
    \/ /\ ch = "s"
       /\ \E string \in Strings : ConvertS(string)
    \/ \E arg \in Longs :
        \/ ch = "d" /\ ConvertD(arg)
        \/ ch = "p" /\ Convert("p", arg, <<"0", "x">>, arg, 16)
        \/ ch = "u" /\ Convert("u", arg, <<>>, ToWidth(arg), 10)
        \/ ch = "x" /\ Convert("x", arg, IF ctx.prefix THEN <<"0", "x">> ELSE <<>>, ToWidth(arg), 16)
    \/ /\ ch \notin {"%", "c", "d", "l", "p", "s", "u", "x"}
       /\ ctx' = [ctx EXCEPT !.state = "START"]
       /\ UNCHANGED <<buffer, full, last, undefined>>

-----------------------------------------------------------------------------
\* The lengths are ints, and nothing keeps them from overflowing.
SetContext(new) ==
    /\ ctx' = new
    /\ undefined' = (undefined \/ 2 * new.min >= IntSize \/ 2 * new.max >= IntSize)
    /\ UNCHANGED <<buffer, full, last>>

\* A state of the parser without its action: the context it goes to with a character,
\* or the context it is in if the character is none of its own.
Escape(ch) ==
    CASE ch = "0" -> [ctx EXCEPT !.padZero = TRUE]
      [] ch = "#" -> [ctx EXCEPT !.prefix = TRUE]
      [] ch \in DecimalDigits \ {"0"} ->
            [ctx EXCEPT !.hasMin = TRUE, !.min = DigitValue(ch), !.state = "MINLEN"]
      [] OTHER -> [ctx EXCEPT !.hasMax = TRUE, !.max = 0, !.state = "MAXLEN"]
MinLen(ch) ==
    IF ch = "." THEN [ctx EXCEPT !.hasMax = TRUE, !.max = 0, !.state = "MAXLEN"]
    ELSE [ctx EXCEPT !.min = 10 * @ + DigitValue(ch)]
MaxLen(ch) == [ctx EXCEPT !.max = 10 * @ + DigitValue(ch)]

\* Mutant: the flags of the last conversion are kept.
Start_KeepsFlags(ch) ==
    IF ch = "%" THEN SetContext([ctx EXCEPT !.state = "ESCAPE"])
    ELSE vsprintf_generic_out(<<ch>>) /\ UNCHANGED <<ctx, last, undefined>>

Start(ch) ==
    IF ch = "%" THEN SetContext([Cleared EXCEPT !.state = "ESCAPE"])
    ELSE vsprintf_generic_out(<<ch>>) /\ UNCHANGED <<ctx, last, undefined>>

\* One iteration of the loop of vsprintf_generic.
vsprintf_generic(ch) ==
    /\ left > 0 /\ ~undefined
    /\ left' = left - 1
    /\ level' = IF left = MaxFormat THEN ch \in DecimalDigits \ {"8", "9"} ELSE level
    /\ spec' = IF ctx.state = "START" THEN <<>> ELSE Append(spec, ch)
    /\ CASE ctx.state = "START" -> Start(ch)
         [] ctx.state = "ESCAPE" /\ ch \in DecimalDigits \cup {"#", "."} -> SetContext(Escape(ch))
         [] ctx.state = "MINLEN" /\ ch \in DecimalDigits \cup {"."} -> SetContext(MinLen(ch))
         [] ctx.state = "MAXLEN" /\ ch \in DecimalDigits -> SetContext(MaxLen(ch))
         [] OTHER -> vsprintf_generic_checkAction(ch)
    /\ UNCHANGED <<limit, port>>

\* The format ends; vprintk, which calls vsnprintf, sends what is in the buffer to
\* the port, without the level in front.
vprintk ==
    /\ limit # NoLimit /\ left >= 0 /\ ~undefined
    /\ left' = -1
    /\ port' = IF level THEN SubSeq(buffer, 2, Len(buffer)) ELSE buffer
    /\ UNCHANGED <<limit, ctx, buffer, level, full, spec, last, undefined>>

PrintfNext == vprintk \/ \E ch \in Characters : vsprintf_generic(ch)

PrintfSpec == PrintfInit /\ [][PrintfNext]_printfVars

-----------------------------------------------------------------------------
\* The number that the digits at some places of a text stand for.
ValueOf(text, places, base) ==
    LET value[i \in 0 .. Len(text)] ==
            IF i = 0 THEN 0
            ELSE IF i \in places THEN base * value[i - 1] + DigitValue(text[i])
            ELSE value[i - 1]
    IN  value[Len(text)]

\* The minimum length that the characters of a conversion ask for: the digits
\* before the dot.
AskedLength(chars) ==
    ValueOf(chars, {i \in DOMAIN chars : /\ chars[i] \in DecimalDigits
                                        /\ \A j \in 1 .. i : chars[j] # "."}, 10)

\* What a number that was put out says when it is read back: its sign and its
\* value, without filler and prefix.
ReadBack(text, base) ==
    LET value == ValueOf(text, {i \in DOMAIN text : text[i] \in Range(DigitChar)}, base)
    IN  IF Head(text) = "-" THEN -value ELSE value

\* What it should say: the argument, in the width and with the sign of the
\* conversion.
Meant(number) ==
    LET conversion == Last(number.spec)
        size == IF conversion = "p" \/ "l" \in Range(number.spec) THEN LongSize ELSE IntSize
    IN  IF conversion = "d" THEN Signed(number.arg % size, size) ELSE number.arg % size

\* A number comes out as its argument, at least as long as the conversion asks
\* for, and with no filler beyond that: nothing of an earlier conversion shows.
NumbersReadBack ==
    last # NoNumber /\ ~undefined =>
        LET base == IF Last(last.spec) \in {"p", "x"} THEN 16 ELSE 10
            asked == AskedLength(last.spec)
        IN  /\ ReadBack(last.text, base) = Meant(last)
            /\ Len(last.text) >= asked
            /\ Len(last.text) > asked => Blank \notin Range(last.text)

\* The buffer holds the beginning of the whole text, as much of it as leaves room for the zero,
\* and the port gets all of that but the level.
Truncated ==
    undefined \/ /\ IsPrefix(buffer, full)
                 /\ limit # NoLimit => Len(buffer) <= limit
                 /\ limit = NoLimit \/ Len(buffer) < limit => buffer = full
                 /\ left = -1 => IsSuffix(port, buffer) /\ Len(port) \in {Len(buffer), Len(buffer) - 1}
=============================================================================
