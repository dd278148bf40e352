------------------------------ MODULE DdbRecord -----------------------------
(***************************************************************************)
(* The records and the contents of one table of the distributed database.  *)
(***************************************************************************)
EXTENDS Integers

CONSTANTS Key, Value, NoValue, Star, MaxSerie

ASSUME TableConstants ==
    /\ NoValue \notin Value
    /\ Star \notin Key
    /\ MaxSerie \in Nat

Val == Value \cup {NoValue}

\* A line of tabla.<c>; the key Star is a checkpoint.
Record == [serie : 1..MaxSerie, key : Key \cup {Star}, val : Val]

Table == [serie : 0..MaxSerie, vals : [Key -> Val]]
Empty == [serie |-> 0, vals |-> [k \in Key |-> NoValue]]

After(t, r) ==
    [serie |-> r.serie,
     vals |-> IF r.key \in Key THEN [t.vals EXCEPT ![r.key] = r.val]
              ELSE t.vals]
=============================================================================
