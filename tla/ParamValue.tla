----------------------------- MODULE ParamValue -----------------------------
(***************************************************************************)
(* What an RPC parameter promises its callers: the result of each         *)
(* accessor is a function of the raw JSON message alone, whatever was      *)
(* called on the parameter before.  This is the specification the         *)
(* caching Param of Param.tla implements.                                   *)
(***************************************************************************)
EXTENDS ParamText, TLC

CONSTANT Raws     \* the raw messages a request can carry

VARIABLES
    raw,    \* the parameter's JSON message
    out     \* the last accessor called, mapped to its result

Methods == {"GetString", "AsString", "String", "GetBool", "AsBool",
            "GetInt", "AsInt", "GetArray", "GetBytesHex", "IsNull"}

(* The zero value an accessor returns with an error, and that error.       *)
Zero == [GetString |-> <<>>, AsString |-> <<>>, String |-> <<>>,
         GetBool |-> FALSE, AsBool |-> FALSE, GetInt |-> 0, AsInt |-> 0,
         GetArray |-> None, GetBytesHex |-> None, IsNull |-> FALSE]
ErrOf == [GetString |-> "notString", AsString |-> "notString",
          String |-> "notString", GetBool |-> "notBool", AsBool |-> "notBool",
          GetInt |-> "notInt", AsInt |-> "notInt", GetArray |-> "notArray",
          GetBytesHex |-> "notString", IsNull |-> "none"]

Result(m, v, e) == m :> [val |-> v, err |-> e]

(* The text of a JSON string, number or boolean; None for anything else.  *)
Text(r) ==
    CASE r.t = "string"                 -> r.v
      [] r.t = "number" /\ r.v \in GoInt -> Itoa(r.v)
      [] r.t = "bool"                   -> BoolText(r.v)
      [] OTHER                          -> None

(* The truth value of a JSON boolean, string or number.                    *)
Truth(r) ==
    CASE r.t = "bool"                   -> r.v
      [] r.t = "string"                 -> r.v # <<>>
      [] r.t = "number" /\ r.v \in GoInt -> r.v # 0
      [] OTHER                          -> None

(* The int value of a JSON number, decimal string or boolean.              *)
Number(r) ==
    CASE r.t = "number" /\ r.v \in GoInt -> [val |-> r.v, err |-> "none"]
      [] r.t = "string"                 -> Atoi(r.v)
      [] r.t = "bool"                   -> [val |-> IF r.v THEN 1 ELSE 0, err |-> "none"]
      [] OTHER                          -> None

(* The value an accessor gives for the message r, by the JSON type of r.   *)
Value(m, r) ==
    LET ok(v) == Result(m, v, "none")
        fail == Result(m, Zero[m], IF r.t = "missing" THEN "missing" ELSE ErrOf[m])
        exact(typ) == Unmarshal(r, typ) # None
    IN  CASE m = "IsNull"      -> ok(r.t = "null")
          [] m = "String"      -> ok(IF Text(r) = None THEN <<>> ELSE Text(r))
          [] r.t \in {"missing", "null"} -> fail
          [] m = "GetString"   -> IF exact("string") THEN ok(r.v) ELSE fail
          [] m = "GetBool"     -> IF exact("bool") THEN ok(r.v) ELSE fail
          [] m = "GetInt"      -> IF exact("int") THEN ok(r.v) ELSE fail
          [] m = "GetArray"    -> IF exact("array") THEN ok(r.v) ELSE fail
          [] m = "AsString"    -> IF Text(r) = None THEN fail ELSE ok(Text(r))
          [] m = "AsBool"      -> IF Truth(r) = None THEN fail ELSE ok(Truth(r))
          [] m = "AsInt"       -> IF Number(r) = None THEN fail
                                  ELSE Result(m, Number(r).val, Number(r).err)
          [] m = "GetBytesHex" -> IF Text(r) = None THEN fail
                                  ELSE Result(m, HexDecode(Text(r)).val, HexDecode(Text(r)).err)

Init ==
    /\ raw \in Raws
    /\ out = None

(* Any accessor may be called, any number of times; String and IsNull     *)
(* dereference the parameter and are only called on one that exists.      *)
Call(m) ==
    /\ m \in {"String", "IsNull"} => raw.t # "missing"
    /\ out' = Value(m, raw)
    /\ UNCHANGED raw

Next == \E m \in Methods : Call(m)

Spec == Init /\ [][Next]_<<raw, out>>
=============================================================================
