------------------------------- MODULE EnvMap ------------------------------
(***************************************************************************)
(* What the environment promises its users: a map from names to values.    *)
(* Setting a new name may be refused when Room names are there already,    *)
(* and any change may be refused by the rules for the variable; a call     *)
(* that is refused changes nothing.                                        *)
(***************************************************************************)
EXTENDS Integers, FiniteSets

CONSTANTS Keys, Values, NoValue,
          Room,   \* how many names there is room for
          Loads   \* what may be imported: maps from some of the names

VARIABLES env,  \* the value of every name, or NoValue
          res   \* what the last call returned

vars == <<env, res>>

Maps == [Keys -> Values \union {NoValue}]
Names == {k \in Keys : env[k] # NoValue}

Init == env \in Maps /\ res = "none"

Set(k, v) == res' = "ok" /\ env' = [env EXCEPT ![k] = v]
Refused == res' = "denied" /\ UNCHANGED env
NoRoom(k) == res' = "full" /\ env[k] = NoValue /\ Cardinality(Names) >= Room /\ UNCHANGED env
Delete(k) == res' = "ok" /\ env[k] # NoValue /\ env' = [env EXCEPT ![k] = NoValue]
Missing(k) == res' = "missing" /\ env[k] = NoValue /\ UNCHANGED env
Get(k) == res' = env[k] /\ UNCHANGED env

\* Many names at once, the others kept or dropped.  If there is not room for all
\* of them, some of the new ones are left out.
Load(m, clear) ==
    LET old == IF clear THEN {} ELSE Names
    IN \E out \in SUBSET (DOMAIN m \ old) :
          /\ res' = "ok"
          /\ out # {} => Cardinality(old \union DOMAIN m) > Room
          /\ env' = [k \in Keys |-> IF k \in out THEN NoValue
                                   ELSE IF k \in DOMAIN m THEN m[k]
                                   ELSE IF k \in old THEN env[k] ELSE NoValue]

\* Saving the environment and starting with it again.
Reload == res' \in {"ok", "toobig"} /\ UNCHANGED env

Next ==
    \/ \E k \in Keys, v \in Values : Set(k, v)
    \/ \E k \in Keys : NoRoom(k) \/ Delete(k) \/ Missing(k) \/ Get(k)
    \/ Refused \/ Reload
    \/ \E m \in Loads, clear \in BOOLEAN : Load(m, clear)

Spec == Init /\ [][Next]_vars
=============================================================================
