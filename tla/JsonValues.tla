----------------------------- MODULE JsonValues -----------------------------
(***************************************************************************)
(* What the exporter tells apart in the JSON it reads.  A string is a      *)
(* value of its own, and five values stand for what a check may refuse.    *)
(* Falsy is kept apart from Odd where Python's `or` passes over it.        *)
(***************************************************************************)
EXTENDS Integers

CONSTANTS
    None,    \* null, or a key that is not there
    Odd,     \* a value of another JSON type than the one asked for
    Falsy,   \* one of those that is false to Python: 0, false, [] or {}
    Empty,   \* ""
    Blank    \* a string of white space only

ASSUME ValuesAssumption ==
    /\ {None, Odd, Falsy, Empty, Blank} \cap Int = {}
    /\ {None, Odd, Falsy, Empty, Blank} \cap
          {"cluster", "namespaced", "cron", "event", "user", "unknown"} = {}
    /\ None \notin {Odd, Falsy, Empty, Blank}
    /\ Odd \notin {Falsy, Empty, Blank}
    /\ Falsy \notin {Empty, Blank}
    /\ Empty # Blank

(* A string or null.                                                       *)
OptionalString(value) == value \notin {Odd, Falsy}

(* A string of any length but zero.                                        *)
NonEmpty(value) == value \notin {None, Odd, Falsy, Empty}

(* A string with something in it to read.                                  *)
Legible(value) == value \notin {None, Odd, Falsy, Empty, Blank}

Get(object, field) == IF field \in DOMAIN object THEN object[field] ELSE None

=============================================================================
