------------------------------- MODULE StrNum -------------------------------
(***************************************************************************)
(* Arithmetic on numbers in text form (src/resultset_merge.c): how the     *)
(* aggregates that several shards return for one group are added and       *)
(* compared.  A number is the parts of its text: sign, digits before and   *)
(* behind the point.  No digits at all is a NULL; sci marks a text such as *)
(* 1e+20, which check_str_num_supported refuses.                           *)
(***************************************************************************)
EXTENDS Integers, Sequences, SequencesExt

CONSTANT SNSize         \* MAX_COL_VALUE_LEN, the size of a value's buffer
ASSUME StrNumAssumption == SNSize \in Nat \ {0}

Num(neg, int, frac) ==
    [neg |-> neg, int |-> int, dot |-> frac # <<>>, frac |-> frac, sci |-> FALSE]
SNNull == Num(FALSE, <<>>, <<>>)
SNZero == Num(FALSE, <<0>>, <<>>)

SNLen(s) == (IF s.neg THEN 1 ELSE 0) + Len(s.int) + (IF s.dot THEN 1 ELSE 0) + Len(s.frac)

check_str_num_supported(s) == ~s.sci

Sign(n) == IF n > 0 THEN 1 ELSE IF n < 0 THEN -1 ELSE 0

\* Leading zeros are skipped, the last digit before the point never.
SkipZeros(int) ==
    LET nz == {i \in DOMAIN int : int[i] # 0 \/ i = Len(int)}
    IN  SubSeq(int, CHOOSE i \in nz : \A j \in nz : i <= j, Len(int))

\* The first digit of a that differs from b's decides; behind the end of b
\* stands the string's terminator, which is less than any digit.
CmpDigits(a, b) ==
    LET D(i) == IF i <= Len(b) THEN b[i] ELSE -1
        diff == {i \in DOMAIN a : a[i] # D(i)}
    IN  IF diff = {} THEN 0
        ELSE LET i == CHOOSE i \in diff : \A j \in diff : i <= j
             IN  Sign(a[i] - D(i))

HasNonZero(digits) == \E i \in DOMAIN digits : digits[i] # 0

cmp_str_pos_num(s1, s2) ==
    LET i1 == SkipZeros(s1.int)
        i2 == SkipZeros(s2.int)
        int == CmpDigits(i1, i2)
    IN  IF Len(i1) # Len(i2) THEN Sign(Len(i1) - Len(i2))
        ELSE IF int # 0 THEN int
        ELSE IF ~s1.dot THEN (IF HasNonZero(s2.frac) THEN -1 ELSE 0)
        ELSE IF ~s2.dot THEN (IF HasNonZero(s1.frac) THEN 1 ELSE 0)
        ELSE CmpDigits(s1.frac, s2.frac)

cmp_str_num(s1, s2) ==
    IF s1.neg /\ s2.neg THEN -cmp_str_pos_num(s1, s2)
    ELSE IF s1.neg THEN -1
    ELSE IF s2.neg THEN 1
    ELSE cmp_str_pos_num(s1, s2)

Zeros(n) == [i \in 1..n |-> 0]
OrZero(s) == IF s.int = <<>> THEN SNZero ELSE s

\* padding_zero: both texts get the longer fraction; ok is FALSE when the
\* padded text would not fit its buffer.
padding_zero(a, b) ==
    LET s1 == OrZero(a)
        s2 == OrZero(b)
        scale == IF Len(s1.frac) > Len(s2.frac) THEN Len(s1.frac) ELSE Len(s2.frac)
        Pad(s) == [s EXCEPT !.dot = TRUE, !.frac = s.frac \o Zeros(scale - Len(s.frac))]
        Fits(s) == Len(s.frac) = scale \/ SNLen(Pad(s)) < SNSize
    IN  IF ~s1.dot /\ ~s2.dot THEN [ok |-> TRUE, s1 |-> s1, s2 |-> s2]
        ELSE [ok |-> Fits(s1) /\ Fits(s2), s1 |-> Pad(s1), s2 |-> Pad(s2)]

\* compare_str_num_value: the sign of the order of two ORDER BY or GROUP BY
\* values; ok is FALSE for compare_failed.
compare_str_num_value(a, b) ==
    LET p == padding_zero(a, b)
        cmp == cmp_str_num(p.s1, p.s2)
    IN  [ok |-> p.ok /\ (p.s1.neg # p.s2.neg \/ ~(a.sci \/ b.sci)), sign |-> cmp]

(***************************************************************************)
(* Digit by digit from the right, with a carry or a borrow.                *)
(***************************************************************************)
Digit(d, i) == IF i <= Len(d) THEN d[Len(d) + 1 - i] ELSE 0     \* i-th from the right

\* str_int_add: one digit more than the longer operand
str_int_add(x, y, carry) ==
    LET n == IF Len(x) > Len(y) THEN Len(x) ELSE Len(y)
        c[i \in 0..n] == IF i = 0 THEN carry
                         ELSE (Digit(x, i) + Digit(y, i) + c[i - 1]) \div 10
    IN  [k \in 1..(n + 1) |->
            IF k = 1 THEN c[n]
            ELSE (Digit(x, n + 2 - k) + Digit(y, n + 2 - k) + c[n + 1 - k]) % 10]

\* str_int_sub: as many digits as x, which is the larger number
str_int_sub(x, y, borrow) ==
    LET n == Len(x)
        b[i \in 0..n] == IF i = 0 THEN borrow
                         ELSE IF Digit(x, i) - Digit(y, i) - b[i - 1] < 0 THEN 1 ELSE 0
    IN  [k \in 1..n |-> (Digit(x, n + 1 - k) - Digit(y, n + 1 - k) - b[n - k] + 10) % 10]

\* str_decimal_add, str_decimal_sub: the fractions, of one length, first; what
\* they carry or borrow goes into the part before the point.  trim_zero then
\* takes the leading zeros away.
str_decimal_add(neg, s1, s2) ==
    LET f == str_int_add(s1.frac, s2.frac, 0)
    IN  [s1 EXCEPT !.neg = neg, !.frac = Tail(f),
                   !.int = SkipZeros(str_int_add(s1.int, s2.int, f[1]))]

Borrows(x, y) == CmpDigits(x, y) < 0

str_decimal_sub(neg, s1, s2) ==
    [s1 EXCEPT !.neg = neg, !.frac = str_int_sub(s1.frac, s2.frac, 0),
               !.int = SkipZeros(str_int_sub(s1.int, s2.int,
                                  IF Borrows(s1.frac, s2.frac) THEN 1 ELSE 0))]

\* dispose_sign_add on two padded numbers.  An exact zero is the text "0",
\* with the point and the zeros of s2 put back for a DECIMAL.
dispose_sign_add(decimal, s1, s2) ==
    LET cmp == cmp_str_pos_num(s1, s2)
    IN  IF s1.neg = s2.neg THEN str_decimal_add(s1.neg, s1, s2)
        ELSE IF cmp > 0 THEN str_decimal_sub(s1.neg, s1, s2)
        ELSE IF cmp < 0 THEN str_decimal_sub(s2.neg, s2, s1)
        ELSE IF decimal THEN padding_zero(SNZero, s2).s1 ELSE SNZero

\* str_add
str_add(decimal, a, b) ==
    LET p == padding_zero(a, b)
    IN  [ok |-> p.ok /\ check_str_num_supported(a) /\ check_str_num_supported(b),
         val |-> dispose_sign_add(decimal, p.s1, p.s2)]

\* modify_record drops the zeros at the end of a FLOAT's or DOUBLE's fraction.
TrimFrac(s) ==
    LET nz == {i \in DOMAIN s.frac : s.frac[i] # 0}
        n == IF nz = {} THEN 0 ELSE CHOOSE i \in nz : \A j \in nz : j <= i
    IN  [s EXCEPT !.frac = SubSeq(@, 1, n), !.dot = n > 0]

\* merge_aggr_value: a shard without rows contributes nothing.
merge_aggr_value(fun, decimal, a, b) ==
    LET sum == str_add(decimal, a, b)
        Taken(v) == [ok |-> TRUE, val |-> v]
        cmp == cmp_str_num(a, b)
        known == a.neg # b.neg \/ ~(a.sci \/ b.sci)
    IN  IF b.int = <<>> THEN Taken(a)
        ELSE IF a.int = <<>> THEN Taken(b)
        ELSE CASE fun \in {"SUM", "COUNT"} ->
                    [sum EXCEPT !.val = IF decimal THEN @ ELSE TrimFrac(@)]
               [] fun = "MAX" -> [ok |-> known, val |-> IF cmp > 0 THEN a ELSE b]
               [] fun = "MIN" -> [ok |-> known, val |-> IF cmp <= 0 THEN a ELSE b]

\* fulfill_condi: HAVING <aggregate> rel cond
fulfill_condi(v, rel, cond) ==
    LET c == cmp_str_num(v, cond)
    IN  cond.int = <<>> \/
        /\ v.int # <<>>
        /\ CASE rel = "<=" -> c <= 0 [] rel = ">=" -> c >= 0 [] rel = "<" -> c < 0
             [] rel = ">" -> c > 0 [] rel = "=" -> c = 0 [] rel = "<>" -> c # 0

(***************************************************************************)
(* The numbers themselves, in units of 10^-Scale.                          *)
(***************************************************************************)
Scale == 3
Value(s) ==
    LET d == s.int \o s.frac \o Zeros(Scale - Len(s.frac))
        v == FoldLeft(LAMBDA n, x : 10 * n + x, 0, d)
    IN  IF s.neg THEN -v ELSE v
=============================================================================
