----------------------------- MODULE ParamText -----------------------------
(***************************************************************************)
(* The conversions the RPC parameter accessors of                          *)
(* src/pkg/rpc/request/param.go are built on: the JSON value a raw message *)
(* holds, json.Unmarshal of it into a Go value, strconv.Itoa,              *)
(* strconv.Atoi and hex.DecodeString.  A Go string is a sequence of        *)
(* characters; Go's int is scaled down to MinInt..MaxInt, so that a        *)
(* number or a decimal string can lie outside it.                          *)
(***************************************************************************)
EXTENDS Integers, Sequences

CONSTANTS
    MaxInt,     \* the largest Go int, scaled down
    None        \* a nil cache, a nil slice, no result yet

MinInt == -(MaxInt + 1)
GoInt == MinInt..MaxInt

(* A raw message is the JSON value it holds: t is its JSON type and v its  *)
(* value.  "float" is a number with a fraction or an exponent; "missing"   *)
(* is a nil *Param, a parameter the request does not have.                 *)
JSONTypes == {"missing", "null", "string", "number", "float", "bool", "array"}

(* The Go types a Param caches: string, int, bool and []Param.            *)
GoTypes == {"string", "int", "bool", "array"}

DigitSeq == <<"0", "1", "2", "3", "4", "5", "6", "7", "8", "9">>
DigitChar(n) == DigitSeq[n + 1]
DigitChars == {DigitSeq[k] : k \in DOMAIN DigitSeq}
DigitVal(c) == CHOOSE n \in 0..9 : DigitChar(n) = c

HexSeq == <<"0", "1", "2", "3", "4", "5", "6", "7", "8", "9",
            "a", "b", "c", "d", "e", "f">>
HexChars == {HexSeq[k] : k \in DOMAIN HexSeq} \cup {"A", "B", "C", "D", "E", "F"}
HexVal(c) ==
    IF c \in {"A", "B", "C", "D", "E", "F"}
    THEN CHOOSE n \in 10..15 : <<"A", "B", "C", "D", "E", "F">>[n - 9] = c
    ELSE CHOOSE n \in 0..15 : HexSeq[n + 1] = c

BoolText(b) == IF b THEN <<"t", "r", "u", "e">> ELSE <<"f", "a", "l", "s", "e">>

(* json.Unmarshal of the raw message r into a Go value of type typ: the    *)
(* decoded value, or None when the JSON value does not decode to typ (a    *)
(* number with a fraction, or one out of int's range, does not decode to   *)
(* int).                                                                   *)
Unmarshal(r, typ) ==
    IF \/ typ = "string" /\ r.t = "string"
       \/ typ = "int" /\ r.t = "number" /\ r.v \in GoInt
       \/ typ = "bool" /\ r.t = "bool"
       \/ typ = "array" /\ r.t = "array"
    THEN [t |-> typ, v |-> r.v]
    ELSE None

(* strconv.Itoa: the decimal text of n.                                    *)
RECURSIVE Itoa(_)
Itoa(n) ==
    IF n < 0 THEN <<"-">> \o Itoa(-n)
    ELSE IF n < 10 THEN <<DigitChar(n)>>
    ELSE Itoa(n \div 10) \o <<DigitChar(n % 10)>>

Clamp(v) == IF v > MaxInt THEN MaxInt ELSE IF v < MinInt THEN MinInt ELSE v

(* strconv.Atoi: strip one sign, then read the digits left to right,       *)
(* failing with a syntax error (value 0) at an empty digit string or at    *)
(* the first non-digit; a value out of int's range is clamped and comes    *)
(* with a range error.                                                     *)
Atoi(s) ==
    LET signed == s # <<>> /\ Head(s) \in {"+", "-"}
        d == IF signed THEN Tail(s) ELSE s
        RECURSIVE Scan(_, _)
        Scan(n, k) ==
            IF k > Len(d) THEN n
            ELSE IF d[k] \notin DigitChars THEN None
            ELSE Scan(10 * n + DigitVal(d[k]), k + 1)
        mag == IF d = <<>> THEN None ELSE Scan(0, 1)
        v == IF signed /\ Head(s) = "-" THEN -mag ELSE mag
    IN  IF mag = None THEN [val |-> 0, err |-> "syntax"]
        ELSE [val |-> Clamp(v), err |-> IF v \in GoInt THEN "none" ELSE "range"]

(* hex.DecodeString: the bytes of the leading pairs of hex digits, and an  *)
(* error at the first pair with a non-hex character, or at an odd length. *)
HexDecode(s) ==
    LET pairs == Len(s) \div 2
        okPair(k) == s[2 * k - 1] \in HexChars /\ s[2 * k] \in HexChars
        n == CHOOSE k \in 0..pairs :
                /\ \A j \in 1..k : okPair(j)
                /\ k < pairs => ~okPair(k + 1)
        odd == Len(s) % 2 = 1
    IN  [val |-> [k \in 1..n |-> 16 * HexVal(s[2 * k - 1]) + HexVal(s[2 * k])],
         err |-> IF n < pairs THEN "invalidByte"
                 ELSE IF odd /\ s[Len(s)] \notin HexChars THEN "invalidByte"
                 ELSE IF odd THEN "length"
                 ELSE "none"]
=============================================================================
