------------------------------- MODULE Param -------------------------------
(***************************************************************************)
(* The RPC request parameter of src/pkg/rpc/request/param.go.  A Param     *)
(* holds the raw JSON message of one parameter and a cache: the first      *)
(* accessor that decodes the message stores the decoded Go value, and      *)
(* every later accessor converts the cached value instead of decoding the  *)
(* message again.  The accessors are the actions; the cache is the state.  *)
(***************************************************************************)
EXTENDS ParamText, TLC

CONSTANT Raws     \* the raw messages a request can carry

VARIABLES
    raw,      \* Param.RawMessage (a nil *Param is the raw "missing")
    cache,    \* Param.cache: None or the decoded [t |-> GoType, v |-> value]
    out       \* the last accessor called, mapped to its result

vars == <<raw, cache, out>>

Ok(v) == [val |-> v, err |-> "none"]
Fail(v, e) == [val |-> v, err |-> e]

(* The conversions of a cached or freshly decoded value x, as the type     *)
(* switches of the accessors do them.                                      *)
StringOf(x) ==
    CASE x.t = "string" -> Ok(x.v)
      [] x.t = "int"    -> Ok(Itoa(x.v))
      [] x.t = "bool"   -> Ok(BoolText(x.v))
      [] OTHER          -> Fail(<<>>, "notString")

BoolOf_Numeric(x) ==
    CASE x.t = "bool"   -> Ok(x.v)
      [] x.t = "string" -> Ok(Atoi(x.v).val # 0)
      [] x.t = "int"    -> Ok(x.v # 0)
      [] OTHER          -> Fail(FALSE, "notBool")

BoolOf(x) ==
    CASE x.t = "bool"   -> Ok(x.v)
      [] x.t = "string" -> Ok(x.v # <<>>)
      [] x.t = "int"    -> Ok(x.v # 0)
      [] OTHER          -> Fail(FALSE, "notBool")

IntOf(x) ==
    CASE x.t = "int"    -> Ok(x.v)
      [] x.t = "string" -> Atoi(x.v)
      [] x.t = "bool"   -> Ok(IF x.v THEN 1 ELSE 0)
      [] OTHER          -> Fail(0, "notInt")

(* The exact accessors GetString, GetBool, GetInt and GetArray accept     *)
(* only their own type.                                                    *)
Exact(typ, zero, err, x) ==
    IF x.t = typ THEN Ok(x.v) ELSE Fail(zero, err)

(* The steps every accessor shares, up to the conversion: a nil *Param    *)
(* and a JSON null give nothing to convert; then the cached value is      *)
(* converted; otherwise the message is decoded into each type of order in *)
(* turn and the first that fits is cached and converted; if none fits     *)
(* there is nothing to convert.  x is the value to convert or None.       *)
Lookup(r, c, order) ==
    LET fits == SelectSeq(order, LAMBDA typ : Unmarshal(r, typ) # None)
        d == Unmarshal(r, Head(fits))
    IN  IF r.t \in {"missing", "null"} THEN [x |-> None, cache |-> c]
        ELSE IF c # None THEN [x |-> c, cache |-> c]
        ELSE IF fits = <<>> THEN [x |-> None, cache |-> c]
        ELSE [x |-> d, cache |-> d]

(* An accessor's output: errMissingParameter for a nil *Param, the        *)
(* accessor's error with nothing to convert, else the conversion conv.    *)
Answer(r, l, zero, err, conv) ==
    [out |-> IF r.t = "missing" THEN Fail(zero, "missing")
             ELSE IF l.x = None THEN Fail(zero, err)
             ELSE conv,
     cache |-> l.cache]

GetString(r, c) ==
    LET l == Lookup(r, c, <<"string">>)
    IN  Answer(r, l, <<>>, "notString", Exact("string", <<>>, "notString", l.x))

AsString(r, c) ==
    LET l == Lookup(r, c, <<"string", "int", "bool">>)
    IN  Answer(r, l, <<>>, "notString", StringOf(l.x))

GetBool(r, c) ==
    LET l == Lookup(r, c, <<"bool">>)
    IN  Answer(r, l, FALSE, "notBool", Exact("bool", FALSE, "notBool", l.x))

AsBool(r, c) ==
    LET l == Lookup(r, c, <<"bool", "string", "int">>)
    IN  Answer(r, l, FALSE, "notBool", BoolOf(l.x))

(* GetInt with the cache stored before the decoding error is checked.     *)
GetInt_CacheOnError(r, c) ==
    LET l == Lookup(r, c, <<"int">>)
        res == Answer(r, l, 0, "notInt", Exact("int", 0, "notInt", l.x))
    IN  IF c = None /\ r.t \notin {"missing", "null"} /\ l.x = None
        THEN [res EXCEPT !.cache = [t |-> "int", v |-> 0]]
        ELSE res

GetInt(r, c) ==
    LET l == Lookup(r, c, <<"int">>)
    IN  Answer(r, l, 0, "notInt", Exact("int", 0, "notInt", l.x))

AsInt(r, c) ==
    LET l == Lookup(r, c, <<"int", "string", "bool">>)
    IN  Answer(r, l, 0, "notInt", IntOf(l.x))

GetArray(r, c) ==
    LET l == Lookup(r, c, <<"array">>)
    IN  Answer(r, l, None, "notArray", Exact("array", None, "notArray", l.x))

(* GetBytesHex: AsString, then hex.DecodeString of the text.              *)
GetBytesHex(r, c) ==
    LET s == AsString(r, c)
    IN  [out |-> IF s.out.err # "none"
                 THEN Fail(None, s.out.err)
                 ELSE HexDecode(s.out.val),
         cache |-> s.cache]

-----------------------------------------------------------------------------
Init ==
    /\ raw \in Raws
    /\ cache = None
    /\ out = None

(* A call of a pointer-receiver accessor: its result and the cache it     *)
(* leaves behind.                                                          *)
Invoke(m, res) ==
    /\ out' = m :> res.out
    /\ cache' = res.cache
    /\ UNCHANGED raw

(* String has a value receiver: AsString caches into a copy of the        *)
(* Param, so the caller's cache is left as it was; a nil *Param panics.   *)
String ==
    /\ raw.t # "missing"
    /\ out' = "String" :> Ok(AsString(raw, cache).out.val)
    /\ UNCHANGED <<raw, cache>>

IsNull ==
    /\ raw.t # "missing"
    /\ out' = "IsNull" :> Ok(raw.t = "null")
    /\ UNCHANGED <<raw, cache>>

Next ==
    \/ Invoke("GetString", GetString(raw, cache))
    \/ Invoke("AsString", AsString(raw, cache))
    \/ Invoke("GetBool", GetBool(raw, cache))
    \/ Invoke("AsBool", AsBool(raw, cache))
    \/ Invoke("GetInt", GetInt(raw, cache))
    \/ Invoke("AsInt", AsInt(raw, cache))
    \/ Invoke("GetArray", GetArray(raw, cache))
    \/ Invoke("GetBytesHex", GetBytesHex(raw, cache))
    \/ String
    \/ IsNull

Spec == Init /\ [][Next]_vars

-----------------------------------------------------------------------------
PV == INSTANCE ParamValue

(* The cache only ever holds the message's own decoding: None, or the     *)
(* value json.Unmarshal gives for the one Go type the message decodes to. *)
(* A cache holding anything else makes a later accessor of another type   *)
(* answer from it.                                                         *)
TypeOK ==
    /\ raw \in Raws
    /\ cache = None \/ cache = Unmarshal(raw, cache.t)
    /\ out = None \/ DOMAIN out \subseteq PV!Methods

(* Caching is invisible: every accessor, called after any sequence of     *)
(* other accessors on the same Param, returns what it returns on a fresh  *)
(* Param of the same message, as ParamValue specifies.                     *)
RefinesParamValue == PV!Spec
=============================================================================
