------------------------------- MODULE Bech32 -------------------------------
(***************************************************************************)
(* Bech32 as src/src/crypto/bech32.rs encodes and decodes keys with it.    *)
(*                                                                         *)
(* A string is a sequence of characters.  The 30-bit words of the checksum *)
(* are sequences of six 5-bit symbols, the highest first.                  *)
(***************************************************************************)
EXTENDS Naturals, Sequences

CONSTANTS
    KeyLen,     \* bytes of a key (32 in the code)
    AccRange    \* values of the accumulator of convert_bits (2^32 in the code)

Err   == {}
Ok(v) == {v}

CHARSET ==
    <<"q", "p", "z", "r", "y", "9", "x", "8", "g", "f", "2", "t", "v", "d", "w", "0",
      "s", "3", "j", "n", "5", "4", "k", "h", "c", "e", "6", "m", "u", "a", "7", "l">>
Digits == <<"0", "1", "2", "3", "4", "5", "6", "7", "8", "9">>
Lowers == <<"a", "b", "c", "d", "e", "f", "g", "h", "i", "j", "k", "l", "m",
            "n", "o", "p", "q", "r", "s", "t", "u", "v", "w", "x", "y", "z">>
Uppers == <<"A", "B", "C", "D", "E", "F", "G", "H", "I", "J", "K", "L", "M",
            "N", "O", "P", "Q", "R", "S", "T", "U", "V", "W", "X", "Y", "Z">>

In(c, s) == \E i \in DOMAIN s : s[i] = c
At(c, s) == CHOOSE i \in DOMAIN s : s[i] = c

\* The ASCII code of a lower-case letter, a digit or "?".
Code == [c \in {Lowers[i] : i \in 1..26} \cup {Digits[i] : i \in 1..10} \cup {"?"} |->
            IF c = "?" THEN 63 ELSE IF In(c, Digits) THEN 47 + At(c, Digits) ELSE 96 + At(c, Lowers)]

\* The value of a character of the data part.
Value == [c \in {CHARSET[i] : i \in 1..32} |-> At(c, CHARSET) - 1]

Bit(n, i) == (n \div 2^i) % 2

Xor5 ==
    [a \in 0..31 |-> [b \in 0..31 |->
        LET x(i) == ((Bit(a, i) + Bit(b, i)) % 2) * 2^i IN x(0) + x(1) + x(2) + x(3) + x(4)]]

Xor(u, v) ==
    <<Xor5[u[1]][v[1]], Xor5[u[2]][v[2]], Xor5[u[3]][v[3]],
      Xor5[u[4]][v[4]], Xor5[u[5]][v[5]], Xor5[u[6]][v[6]]>>

\* A 30-bit word as six symbols.
Word(n) == [k \in 1..6 |-> (n \div 32^(6 - k)) % 32]

GENERATOR == <<Word(996825010), Word(642813549), Word(513874426), Word(1027748829), Word(705979059)>>

\* s folded from the left with op.
Folded(op, start, s) ==
    LET fold[i \in 0..Len(s)] == IF i = 0 THEN start ELSE op[fold[i - 1]][s[i]]
    IN  fold[Len(s)]

\* What the five generators make of a top symbol.
Feedback ==
    [top \in 0..31 |->
        LET part(i, k) == IF Bit(top, i - 1) = 1 THEN GENERATOR[i][k] ELSE 0
            symbol(k)  == Xor5[part(1, k)][Xor5[part(2, k)][Xor5[part(3, k)][
                               Xor5[part(4, k)][part(5, k)]]]]
        IN  <<symbol(1), symbol(2), symbol(3), symbol(4), symbol(5), symbol(6)>>]

Step ==
    [chk \in Seq(0..31) |-> [value \in 0..31 |->
        Xor(Feedback[chk[1]], <<chk[2], chk[3], chk[4], chk[5], chk[6], value>>)]]

polymod(values) == Folded(Step, Word(1), values)

hrp_expand(hrp) ==
    [i \in DOMAIN hrp |-> Code[hrp[i]] \div 32] \o <<0>> \o [i \in DOMAIN hrp |-> Code[hrp[i]] % 32]

\* Slip: the checksum is cut off without a look at it.
Unchecked_verify_checksum(hrp, data) == TRUE

verify_checksum(hrp, data) == polymod(hrp_expand(hrp) \o data) = Word(1)

create_checksum(hrp, data) ==
    Xor(polymod(hrp_expand(hrp) \o data \o <<0, 0, 0, 0, 0, 0>>), Word(1))

-----------------------------------------------------------------------------
(* convert_bits.  Its state is the accumulator, the bits in it that are    *)
(* not yet put out, and the output.                                        *)

Accumulator == [acc |-> 0, bits |-> 0, out |-> <<>>]

\* The groups of to bits that the accumulator holds, the highest first.
Drained(acc, bits, out, to) ==
    [acc  |-> acc,
     bits |-> bits % to,
     out  |-> out \o [k \in 1..(bits \div to) |-> (acc \div 2^(bits - k * to)) % 2^to]]

Shifted(acc, by) == (acc * 2^by) % AccRange

Take(from, to) ==
    [a \in [acc : Nat, bits : Nat, out : Seq(Nat)] |-> [value \in Nat |->
        Drained(Shifted(a.acc, from) + value, a.bits + from, a.out, to)]]

Grouped(data, from, to) == Folded(Take(from, to), Accumulator, data)

\* The bits of accumulator a that are left over, as the high bits of a group.
Rest(a, to) == Shifted(a.acc, to - a.bits) % 2^to

\* Slip: left-over bits are dropped, whatever they are.
Lenient_convert_bits(data, from, to, pad) ==
    LET end == Grouped(data, from, to)
    IN  Ok(IF pad /\ end.bits > 0 THEN Append(end.out, Rest(end, to)) ELSE end.out)

\* Without padding, fewer than from bits may be left over and they must be zero.
convert_bits(data, from, to, pad) ==
    LET end == Grouped(data, from, to)
    IN  CASE \E i \in DOMAIN data : data[i] >= 2^from               -> Err
          [] pad /\ end.bits > 0                                    -> Ok(Append(end.out, Rest(end, to)))
          [] ~pad /\ (end.bits >= from \/ Rest(end, to) # 0)        -> Err
          [] OTHER                                                  -> Ok(end.out)

-----------------------------------------------------------------------------
(* Strings.                                                                *)

\* The string of a prefix and of symbols that lack their checksum.
Spelt(hrp, values) ==
    {hrp \o <<"1">> \o [i \in DOMAIN symbols |-> CHARSET[symbols[i] + 1]] :
        symbols \in {values \o create_checksum(hrp, values)}}

encode(hrp, data) == UNION {Spelt(hrp, values) : values \in convert_bits(data, 8, 5, TRUE)}

to_ascii_lowercase(s) == [i \in DOMAIN s |-> IF In(s[i], Uppers) THEN Lowers[At(s[i], Uppers)] ELSE s[i]]

\* The prefix, which ends at the last "1", and the rest of a string that is not too
\* long, with a prefix and a checksum.
Split(lower) ==
    {<<SubSeq(lower, 1, pos - 1), SubSeq(lower, pos + 1, Len(lower))>> :
        pos \in {i \in DOMAIN lower :
                    /\ lower[i] = "1" /\ \A j \in DOMAIN lower : lower[j] = "1" => j <= i
                    /\ i \in 2..(Len(lower) - 6) /\ Len(lower) <= 90}}

\* The symbols of chars.
SymbolsOf(chars) ==
    IF \E i \in DOMAIN chars : chars[i] \notin DOMAIN Value THEN Err
    ELSE Ok(<<>> \o [i \in DOMAIN chars |-> Value[chars[i]]])

decode(s) ==
    UNION {{<<p[1], bytes>> :
               bytes \in UNION {convert_bits(SubSeq(data, 1, Len(data) - 6), 5, 8, FALSE) :
                                   data \in {d \in SymbolsOf(p[2]) : verify_checksum(p[1], d)}}} :
           p \in Split(<<>> \o to_ascii_lowercase(s))}

npub == <<"n", "p", "u", "b">>
nsec == <<"n", "s", "e", "c">>

encode_npub(public_key)  == encode(npub, public_key)
encode_nsec(private_key) == encode(nsec, private_key)

\* Slip: what was decoded is taken for a key whatever its length is.
AnyLength_decode_key(hrp, s) == {d[2] : d \in {r \in decode(s) : r[1] = hrp}}

\* decode_npub and decode_nsec: the right prefix and the right length.
decode_key(hrp, s) == {d[2] : d \in {r \in decode(s) : r[1] = hrp /\ Len(r[2]) = KeyLen}}

decode_npub(s) == decode_key(npub, s)
decode_nsec(s) == decode_key(nsec, s)
=============================================================================
