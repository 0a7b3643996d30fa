-------------------------- MODULE MCRefCounterParam --------------------------
(* Two leaf components checked side by side: the VM's reference counter    *)
(* (RefCounter) and the RPC request parameter (Param).  They share no      *)
(* state; their steps interleave.                                           *)
(*                                                                          *)
(* The heap has sharing: the scalar s is held by both arrays, a2 is held   *)
(* by a1 and by the map m (as a value), and a1 holds a2 twice.             *)
(* The parameters are one of every JSON type, with the strings and numbers *)
(* that tell the conversions apart: empty, a digit, a negative, a decimal  *)
(* above MaxInt, hex that is no decimal, "true", a lone sign, a leading    *)
(* zero, and a number above MaxInt that does not decode to int.           *)
EXTENDS RefCounter

CONSTANTS s, a1, a2, m, None

VARIABLES raw, cache, out

MCItems == {s, a1, a2, m}

MCCompound == {a1, a2, m}

MCChildren == (a1 :> <<s, a2, a2>>) @@ (a2 :> <<s>>) @@ (m :> <<a2, a1>>)

MCMaxInt == 99

MCRaws ==
    {[t |-> k, v |-> 0] : k \in {"missing", "null", "float"}}
    \cup {[t |-> "array", v |-> 2]}
    \cup {[t |-> "bool", v |-> b] : b \in BOOLEAN}
    \cup {[t |-> "number", v |-> n] : n \in {0, 7, -1, 100}}
    \cup {[t |-> "string", v |-> str] :
            str \in {<<>>, <<"7">>, <<"-", "1">>, <<"1", "0", "0">>,
                     <<"a", "1">>, <<"t", "r", "u", "e">>, <<"-">>, <<"0", "7">>}}

P == INSTANCE Param WITH Raws <- MCRaws, MaxInt <- MCMaxInt

CombinedSpec ==
    /\ P!Init /\ Init
    /\ [][\/ Next /\ UNCHANGED <<raw, cache, out>>
          \/ P!Next /\ UNCHANGED vars]_<<vars, raw, cache, out>>

(* Param: the cache only ever holds the message's own decoding.            *)
ParamTypeOK == P!TypeOK

(* Param: every accessor, after any other accessors on the same Param,     *)
(* returns what it returns on a fresh Param of the same message.           *)
ParamRefinesValue == P!RefinesParamValue

=============================================================================
