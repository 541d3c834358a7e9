-------------------------------- MODULE Names --------------------------------
(***************************************************************************)
(* How the gateway reads the names clients write for enum values (the      *)
(* _parse_* functions of app/gateway/grpc_clients.py).                     *)
(*                                                                         *)
(* A name is written with the prefix of its proto enum or without, in      *)
(* upper case or not, with blanks before and behind it or not.  An enum    *)
(* value is written as its name without the prefix.                        *)
(***************************************************************************)

Name(words) == [word : words, prefixed : BOOLEAN, lower : BOOLEAN,
                blanks : SUBSET {"before", "behind"}]

Plain(word) == [word |-> word, prefixed |-> FALSE, lower |-> FALSE, blanks |-> {}]

\* value.upper()
Upcased(name) == [name EXCEPT !.lower = FALSE]

\* value.upper().strip()
Normalized(name) == [Upcased(name) EXCEPT !.blanks = {}]

\* Mutated form of Parse: the name is compared as it is written.
ParseExact(name, values) ==
    IF ~name.lower /\ name.blanks = {} /\ name.word \in values THEN name.word
    ELSE "UNSPECIFIED"

\* Short names are looked up in a table, prefixed ones in the enum itself, which
\* also has UNSPECIFIED; what is neither is UNSPECIFIED.
Parse(name, values) ==
    LET n == Normalized(name)
    IN  CASE n = Plain(n.word) /\ n.word \in values -> n.word
          [] n.prefixed /\ n.word \in values        -> n.word
          [] OTHER                                  -> "UNSPECIFIED"

==============================================================================
