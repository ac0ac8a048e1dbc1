------------------------------ MODULE PairCode ------------------------------
(***************************************************************************)
(* The code a person reads off the laptop's screen and types into a phone: *)
(* an IPv4 address, a port and the sixteen digits of the pairing key,      *)
(* thirteen bytes in twenty-one characters.  (internal/paircode.)          *)
(*                                                                         *)
(* A byte is its value, a key the sequence of its digits, a character of   *)
(* the alphabet its place there, and what else a person may type has the   *)
(* numbers from 32 on: the letters the alphabet leaves out, a separator,   *)
(* and whatever else a keyboard has.  Case is thrown away: a letter stands *)
(* for both of its forms.                                                  *)
(***************************************************************************)
EXTENDS Integers, Sequences, SequencesExt

KeyDigits == 16
KeyBytes == 7
CodeChars == 21
PayloadBytes == 4 + 2 + KeyBytes

O == 32
I == 33
L == 34
Separator == 35
Other == 36
Characters == 0 .. Other

NotACode == [ok |-> FALSE, host |-> <<>>, port |-> 0, key |-> <<>>]

\* The digits of a number in one base, times `times`, plus `more`, in as many digits;
\* `over` is what does not fit.
MulAdd(digits, base, times, more) ==
  FoldRight(LAMBDA d, acc :
              LET n == d * times + acc.over IN
              [over |-> n \div base, digits |-> <<n % base>> \o acc.digits],
            digits, [over |-> more, digits |-> <<>>])

Zeros(n) == [i \in 1 .. n |-> 0]

\* keyNumber, and the loop of Encode that takes the number apart.
KeyToBytes(key) ==
  FoldLeft(LAMBDA acc, d : MulAdd(acc, 256, 10, d).digits, Zeros(KeyBytes), key)

\* The loop of Decode that puts it together again, and the sixteen digits it is
\* written with; "over" where it has more.
BytesToKey(bytes) ==
  FoldLeft(LAMBDA acc, b :
             LET r == MulAdd(acc.digits, 10, 256, b) IN
             [over |-> acc.over + r.over, digits |-> r.digits],
           [over |-> 0, digits |-> Zeros(KeyDigits)], bytes)

-----------------------------------------------------------------------------
\* Mutant: the bits are kept in a byte.
ShiftedByte(buffer, by, more) == (buffer * 2^by + more) % 2^8

\* The buffer is a uint16.
Shifted(buffer, by, more) == (buffer * 2^by + more) % 2^16

\* The characters of five bits, or the bytes of eight, that a buffer has ready.
Ready(buffer, bits, size) ==
  [i \in 1 .. bits \div size |-> (buffer \div 2^(bits - size * i)) % 2^size]

\* Feeds values of `from` bits to the buffer and takes values of `to` bits from it.
Regroup(values, from, to) ==
  FoldLeft(LAMBDA acc, v :
             LET buffer == Shifted(acc.buffer, from, v)
                 bits == acc.bits + from
             IN [buffer |-> buffer, bits |-> bits % to,
                 out |-> acc.out \o Ready(buffer, bits, to)],
           [buffer |-> 0, bits |-> 0, out |-> <<>>], values)

Encode32(payload) ==
  LET r == Regroup(payload, 8, 5) IN
  IF r.bits = 0 THEN r.out ELSE Append(r.out, Shifted(r.buffer, 5 - r.bits, 0) % 32)

\* clean: separators go, and the letters that are left out stand for the digits
\* they are taken for.
Clean(typed) ==
  FoldLeft(LAMBDA acc, c : IF c = Separator THEN acc
                           ELSE Append(acc, IF c = O THEN 0 ELSE IF c \in {I, L} THEN 1 ELSE c),
           <<>>, typed)

\* group: a separator after every four.
Group(code) ==
  FoldLeft(LAMBDA acc, i : (IF i > 1 /\ i % 4 = 1 THEN Append(acc, Separator) ELSE acc) \o <<code[i]>>,
           <<>>, [i \in DOMAIN code |-> i])

-----------------------------------------------------------------------------
Encode(host, port, key) ==
  Group(Encode32(host \o <<port \div 256, port % 256>> \o KeyToBytes(key)))

Decode(typed) ==
  LET chars == Clean(typed)
      payload == Regroup(chars, 5, 8).out
      number == BytesToKey(SubSeq(payload, 7, PayloadBytes))
  IN  IF Len(chars) # CodeChars \/ \E i \in DOMAIN chars : chars[i] \notin 0 .. 31
      THEN NotACode
      ELSE IF number.over # 0 THEN NotACode
      ELSE [ok |-> TRUE, host |-> SubSeq(payload, 1, 4),
            port |-> payload[5] * 256 + payload[6], key |-> number.digits]
=============================================================================
