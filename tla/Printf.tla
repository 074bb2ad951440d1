------------------------------- MODULE Printf -------------------------------
(***************************************************************************)
(* src/printf.c.  A format is a sequence of characters in memory that ends   *)
(* with NUL; what lies behind it is some other string.  One step is one      *)
(* round of the loops of vfnprintf(), pos its pointer.  An int is a word in   *)
(* two's complement.                                                         *)
(***************************************************************************)
EXTENDS Integers, SequencesExt

CONSTANTS
    WordSize,     \* number of words
    Char,         \* the characters of formats and strings
    NUL,          \* the one that ends them
    Behind,       \* what lies in memory behind a format
    Meanings      \* what callers ask for: [items, ending]

Word == 0 .. WordSize - 1
Byte == 0 .. 255
negative(v) == v >= WordSize \div 2
hexdigits == <<"0", "1", "2", "3", "4", "5", "6", "7", "8", "9", "A", "B", "C", "D", "E", "F">>
Decimal == {hexdigits[i] : i \in 1 .. 10}
ValueOf(char) == CHOOSE d \in 0 .. 9 : hexdigits[d + 1] = char
(* The number that a sequence of digits stands for. *)
Value(digit) ==
    LET upto[k \in 0 .. Len(digit)] ==
          IF k = 0 THEN 0 ELSE 10 * upto[k - 1] + ValueOf(digit[k])
    IN  upto[Len(digit)]

(***************************************************************************)
(* What a caller means: items, each a character of its own or a conversion   *)
(* with its width and argument, and how the format ends: as it should, with   *)
(* a bare '%', or in the width of a conversion.                              *)
(***************************************************************************)
Spelled(i) == IF i.conv = "text" THEN <<i.char>> ELSE <<"%">> \o i.width \o <<i.conv>>
Endings == [whole |-> <<>>, bare |-> <<"%">>, width |-> <<"%", "4">>]
Format(m) == FlattenSeq([j \in DOMAIN m.items |-> Spelled(m.items[j])]) \o Endings[m.ending]
Arguments(m) == FlattenSeq([j \in DOMAIN m.items |-> m.items[j].args])

(* What a caller passes for a conversion: a string, so many bytes in memory,  *)
(* a number, or nothing.                                                      *)
Takes(conv, args) ==
    CASE conv \in {"d", "u", "x", "X"} -> args = <<args[1]>> /\ args[1] \in Word
      [] conv = "s" -> args = <<args[1]>> /\ args[1] \in Seq(Char)
      [] conv = "h" -> /\ args = <<args[1], args[2]>>
                       /\ args[1] \in Word /\ args[2] \in Seq(Byte)
                       /\ negative(args[1]) \/ args[1] <= Len(args[2])
      [] OTHER -> args = <<>>
WellMeant(i) ==
    \/ i.conv = "text" /\ i.char \in Char \ {"%"} /\ i.args = <<>>
    \/ /\ i.conv \in Char \ Decimal /\ i.width \in Seq(Decimal)
       /\ Value(i.width) < WordSize \div 2 /\ Takes(i.conv, i.args)

(* Words are of an even number, since an int has as many negative as other    *)
(* values; a width is an int.                                                 *)
ASSUME PrintfAssumption ==
    /\ WordSize \in Nat /\ WordSize > 1 /\ WordSize % 2 = 0
    /\ NUL \notin Char /\ "text" \notin Char
    /\ {hexdigits[i] : i \in 1 .. 16} \cup {"%", "-"} \subseteq Char
    /\ Behind \in Seq(Char \cup {NUL})
    /\ \A m \in Meanings :
          /\ Len(m.items) \in Nat /\ DOMAIN m.items = 1 .. Len(m.items)
          /\ \A j \in DOMAIN m.items : WellMeant(m.items[j])
          /\ m.ending \in DOMAIN Endings

VARIABLES
    pc,          \* the loop or switch that runs next
    meant,       \* the call, as its caller means it
    pos,         \* format
    c, pad_width,
    args,        \* the arguments va_arg() has not taken
    out,         \* what went to uart_txchar()
    written
vars == <<pc, meant, pos, c, pad_width, args, out, written>>

mem == Format(meant) \o <<NUL>> \o Behind

Init ==
    /\ meant \in Meanings
    /\ pc = "while" /\ pos = 1 /\ c = NUL /\ pad_width = 0
    /\ args = Arguments(meant) /\ out = <<>> /\ written = 0

-----------------------------------------------------------------------------
Send(text, count) == out' = out \o text /\ written' = written + count
va_arg(count) == args' = SubSeq(args, count + 1, Len(args))

(* The digits print_uint() sends and the number it returns, for a value and  *)
(* a width.                                                                   *)
(* Mutant: a width of 1 is padded. *)
print_uint_wide(val, base, width) ==
    LET print[a \in Word \X Int] ==
          LET above == IF a[2] > 0 \/ a[1] >= base THEN print[<<a[1] \div base, a[2] - 1>>]
                       ELSE [text |-> <<>>, written |-> 0]
          IN  [text |-> Append(above.text, hexdigits[1 + (a[1] % base)]),
               written |-> above.written + 1]
    IN  print[<<val, width>>]

print_uint(val, base, width) ==
    LET print[a \in Word \X Int] ==
          LET above == IF a[2] > 1 \/ a[1] >= base THEN print[<<a[1] \div base, a[2] - 1>>]
                       ELSE [text |-> <<>>, written |-> 0]
          IN  [text |-> Append(above.text, hexdigits[1 + (a[1] % base)]),
               written |-> above.written + 1]
    IN  print[<<val, width>>]

print_int(v) ==
    LET p == print_uint(IF negative(v) THEN WordSize - v ELSE v, 10, pad_width) IN
    IF negative(v) THEN [text |-> <<"-">> \o p.text, written |-> 1 + p.written] ELSE p

(* The outer loop: the end, a character of its own, or a '%'. *)
next_char ==
    /\ pc = "while"
    /\ IF mem[pos] = NUL
       THEN pc' = "return" /\ UNCHANGED <<pos, c, pad_width, out, written>>
       ELSE /\ c' = mem[pos] /\ pos' = pos + 1 /\ pad_width' = 0
            /\ \/ c' # "%" /\ Send(<<c'>>, 1) /\ UNCHANGED pc
               \/ c' = "%" /\ pc' = "percent" /\ UNCHANGED <<out, written>>
    /\ UNCHANGED <<meant, args>>

(* Mutant: the terminator goes to the switch. *)
percent_any ==
    /\ pc = "percent"
    /\ c' = mem[pos] /\ pos' = pos + 1 /\ pc' = "digits"
    /\ UNCHANGED <<meant, pad_width, args, out, written>>

percent ==
    /\ pc = "percent"
    /\ c' = mem[pos] /\ pos' = pos + 1
    /\ pc' = IF c' = NUL THEN "return" ELSE "digits"
    /\ UNCHANGED <<meant, pad_width, args, out, written>>

digits ==
    /\ pc = "digits"
    /\ \/ /\ c \in Decimal
          /\ pad_width' = 10 * pad_width + ValueOf(c)
          /\ c' = mem[pos] /\ pos' = pos + 1 /\ UNCHANGED pc
       \/ c \notin Decimal /\ pc' = "switch" /\ UNCHANGED <<pos, c, pad_width>>
    /\ UNCHANGED <<meant, args, out, written>>

(* The bytes of %h are words; a negative length prints none. *)
Bytes(len, ptr) ==
    FlattenSeq([j \in 1 .. (IF negative(len) THEN 0 ELSE len) |->
                  <<hexdigits[1 + ptr[j] \div 16], hexdigits[1 + (ptr[j] % 16)]>>])

convert ==
    /\ pc = "switch" /\ pc' = "while"
    /\ \/ /\ c = "d" /\ va_arg(1)
          /\ Send(print_int(args[1]).text, print_int(args[1]).written)
       \/ /\ c \in {"u", "x", "X"} /\ va_arg(1)
          /\ LET p == print_uint(args[1], IF c = "u" THEN 10 ELSE 16, pad_width)
             IN  Send(p.text, p.written)
       \/ /\ c = "h" /\ va_arg(2)
          /\ LET b == Bytes(args[1], args[2]) IN Send(b, Len(b))
       \/ c = "s" /\ va_arg(1) /\ Send(args[1], Len(args[1]))
       \/ c = "%" /\ Send(<<"%">>, 1) /\ UNCHANGED args
       \/ c \notin {"d", "u", "x", "X", "h", "s", "%"} /\ Send(<<"%", c>>, 2) /\ UNCHANGED args
    /\ UNCHANGED <<meant, pos, c, pad_width>>

Next == next_char \/ percent \/ digits \/ convert
Spec == Init /\ [][Next]_vars

-----------------------------------------------------------------------------
(* Properties.                                                               *)

(* The numeral of v, filled with zeros up to width digits: so many digits as  *)
(* the least power of the base above v, each the multiple of its power.        *)
Power(base, k) ==
    LET power[i \in Nat] == IF i = 0 THEN 1 ELSE base * power[i - 1] IN power[k]
NeededDigits(v, base) ==
    CHOOSE k \in 1 .. v + 1 : Power(base, k) > v /\ (k > 1 => Power(base, k - 1) <= v)
Numeral(v, base, width) ==
    LET needed == NeededDigits(v, base)
        count == IF width > needed THEN width ELSE needed
    IN  [i \in 1 .. count |-> hexdigits[1 + ((v \div Power(base, count - i)) % base)]]
Rendered(i) ==
    CASE i.conv = "text" -> <<i.char>>
      [] i.conv = "u" -> Numeral(i.args[1], 10, Value(i.width))
      [] i.conv \in {"x", "X"} -> Numeral(i.args[1], 16, Value(i.width))
      [] i.conv = "d" /\ i.args[1] < WordSize \div 2 -> Numeral(i.args[1], 10, Value(i.width))
      [] i.conv = "d" /\ i.args[1] >= WordSize \div 2 ->
           <<"-">> \o Numeral(WordSize - i.args[1], 10, Value(i.width))
      [] i.conv = "s" -> i.args[1]
      [] i.conv = "h" ->
           IF i.args[1] >= WordSize \div 2 THEN <<>>
           ELSE FlattenSeq([j \in 1 .. i.args[1] |-> Numeral(i.args[2][j], 16, 2)])
      [] i.conv = "%" -> <<"%">>
      [] OTHER -> <<"%", i.conv>>

(* A format that does not end in a width prints what its caller means, with  *)
(* every argument taken by its own conversion, and the number returned is    *)
(* that of the characters printed (vfnprintf, print_uint).                   *)
PrintsAsMeant ==
    pc = "return" /\ meant.ending # "width" =>
        /\ out = FlattenSeq([j \in DOMAIN meant.items |-> Rendered(meant.items[j])])
        /\ written = Len(out) /\ args = <<>>

(* vfnprintf() goes on behind the terminator of a format only if that ends   *)
(* in the width of a conversion; the NUL is then printed as its character.   *)
StaysInFormat ==
    /\ pc # "return" /\ pos > Len(Format(meant)) + 1 => meant.ending = "width"
    /\ NUL \in {out[i] : i \in DOMAIN out} => meant.ending = "width"
=============================================================================
