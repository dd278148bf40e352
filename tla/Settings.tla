------------------------------- MODULE Settings -------------------------------
(****************************************************************************)
(* What records of the distributed database do to a running server          *)
(* (s_bdd.c): features (FEATURESDB), debug channels (CONFIGDB) and the      *)
(* names of the bots (BOTSDB) are variables that db_insertar_registro sets, *)
(* db_eliminar_registro puts back to their defaults, and a start derives    *)
(* from the tables again: by reading the files table by table, which        *)
(* applies every record in its order, or, in builds with BDD_MMAP whose     *)
(* cache is valid, by reading a few records of the tables in memory.  A     *)
(* record of the operators (OPERDB) sets no variable of these, but its      *)
(* deletion clears one: see db_eliminar_registro below.                     *)
(*                                                                          *)
(* The files and the cache themselves are in DdbStore.  A text is a value;  *)
(* strcasecmp and atoi are what they do to the values that are tried.  The  *)
(* variables that are set the same way are one kind.                        *)
(****************************************************************************)
EXTENDS SequencesExt, Integers

CONSTANTS
  SetKeys,        \* records: pairs <<table, name>>
  KindOf,         \* [SetKeys -> kind]
  ValuesOf,       \* [SetKeys -> values that are tried]
  Atoi,           \* [numbers as text -> what atoi reads]
  NickMax,        \* NICKLEN
  MaxWrites,      \* records written
  Boots           \* kinds of start: subset of {"file", "cache"}

Absent == "absent"
SetTables == {k[1] : k \in SetKeys}

VARIABLES
  rec,            \* [SetKeys -> value, or Absent]: tabla_datos
  writes,         \* records written so far
  journal,        \* the files: writes in order, since the table was dropped
  conf_,          \* [SetKeys -> the variable the record governs]
  wiped,          \* keys in effect whose record went with the whole table (history)
  cut             \* keys cleared under a standing record (history)

settingsVars == <<rec, writes, journal, conf_, wiped, cut>>

-----------------------------------------------------------------------------
\* The variables as a process starts with them.
Initially(k) ==
  CASE KindOf[k] = "flag" -> FALSE
    [] KindOf[k] = "ident" -> TRUE
    [] KindOf[k] = "number" -> 0
    [] KindOf[k] = "nicklen" -> 30
    [] OTHER -> "NULL"

\* db_insertar_registro: the switch over the tables.
Applied(k, v) ==
  CASE KindOf[k] = "flag" -> v = "TRUE"
    [] KindOf[k] = "ident" -> v # "FALSE"
    [] KindOf[k] = "number" -> Atoi[v]
    [] KindOf[k] = "nicklen" -> IF Atoi[v] < 9 THEN 9 ELSE IF Atoi[v] > NickMax THEN NickMax ELSE Atoi[v]
    [] KindOf[k] \in {"nothing", "oper"} -> "NULL"
    [] OTHER -> v

\* db_eliminar_registro without reemplazar: the switch over the tables.
Cleared_Ident(k) ==
  CASE KindOf[k] \in {"flag", "ident"} -> FALSE
    [] KindOf[k] = "number" -> 0
    [] KindOf[k] = "nicklen" -> 30
    [] OTHER -> "NULL"
Cleared(k) ==
  CASE KindOf[k] = "flag" -> FALSE
    [] KindOf[k] = "ident" -> TRUE
    [] KindOf[k] = "number" -> 0
    [] KindOf[k] = "nicklen" -> 30
    [] OTHER -> "NULL"

\* A write to a table with its effect; a deletion has one only when the record
\* is found.  The case of OPERDB has no break and goes on into that of BOTSDB: a
\* bot that has the operator's name loses its entry, whether it has a record or
\* not.
Namesakes(k) == {b \in SetKeys : KindOf[k] = "oper" /\ b = <<"bots", k[2]>>}
db_insertar_registro(s, k, v) ==
  [s EXCEPT !.rec[k] = v, !.conf[k] = Applied(k, v), !.cut = @ \ {k}]
db_eliminar_registro(s, k) ==
  IF s.rec[k] = Absent THEN s
  ELSE [rec  |-> [s.rec EXCEPT ![k] = Absent],
        conf |-> [x \in SetKeys |-> IF x \in {k} \cup Namesakes(k) THEN Cleared(x) ELSE s.conf[x]],
        cut  |-> (s.cut \ {k}) \cup {b \in Namesakes(k) : s.rec[b] # Absent}]
Written(s, w) == IF w.val = Absent THEN db_eliminar_registro(s, w.key)
                 ELSE db_insertar_registro(s, w.key, w.val)

Blank == [rec |-> [k \in SetKeys |-> Absent], conf |-> [k \in SetKeys |-> Initially(k)], cut |-> {}]

-----------------------------------------------------------------------------
(* Actions.                                                                 *)

\* A record arrives and goes to the file and to the table.
WriteRecord(k, v) ==
  LET s == Written([rec |-> rec, conf |-> conf_, cut |-> cut], [key |-> k, val |-> v]) IN
  /\ writes < MaxWrites
  /\ writes' = writes + 1
  /\ journal' = Append(journal, [key |-> k, val |-> v])
  /\ rec' = s.rec /\ conf_' = s.conf /\ cut' = s.cut
  /\ wiped' = IF v # Absent THEN wiped \ {k} ELSE wiped

\* borrar_db: the records of a table go, what they set stays.
DropTable(t) ==
  LET mine == {k \in SetKeys : k[1] = t} IN
  /\ rec' = [k \in SetKeys |-> IF k \in mine THEN Absent ELSE rec[k]]
  /\ journal' = SelectSeq(journal, LAMBDA w : w.key \notin mine)
  /\ wiped' = wiped \cup {k \in mine : rec[k] # Absent}
  /\ cut' = cut \ mine
  /\ UNCHANGED <<writes, conf_>>

\* initdb with a valid cache: the key for virtual addresses is read again,
\* and the limit of clones, from a record of CONFIGDB.
FromCache ==
  [k \in SetKeys |->
     IF KindOf[k] = "key" /\ rec[k] # Absent THEN Applied(k, rec[k])
     ELSE IF /\ KindOf[k] = "number" /\ <<"config", k[2]>> \in SetKeys
             /\ rec[<<"config", k[2]>>] # Absent
          THEN Atoi[rec[<<"config", k[2]>>]]
     ELSE Initially(k)]

\* initdb2 for every table from a to z: BOTSDB is b and OPERDB is o, the only
\* order that matters here.
InTableOrder(j) ==
  SelectSeq(j, LAMBDA w : KindOf[w.key] # "oper") \o SelectSeq(j, LAMBDA w : KindOf[w.key] = "oper")

\* A new process; without a valid cache initdb2 applies the files' records.
Restarts(how) ==
  LET s == FoldLeft(Written, Blank, InTableOrder(journal)) IN
  /\ rec' = IF how = "file" THEN s.rec ELSE rec
  /\ conf_' = IF how = "file" THEN s.conf ELSE FromCache
  /\ cut' = IF how = "file" THEN s.cut ELSE {}
  /\ wiped' = {}
  /\ UNCHANGED <<writes, journal>>

SettingsInit ==
  /\ rec = Blank.rec
  /\ writes = 0
  /\ journal = <<>>
  /\ conf_ = Blank.conf
  /\ wiped = {} /\ cut = {}

SettingsNext ==
  \/ \E k \in SetKeys : \E v \in ValuesOf[k] \cup {Absent} : WriteRecord(k, v)
  \/ \E t \in SetTables : DropTable(t)
  \/ \E how \in Boots : Restarts(how)

SettingsSpec == SettingsInit /\ [][SettingsNext]_settingsVars

-----------------------------------------------------------------------------
(* Properties.                                                              *)

SettingsTypeOK ==
  /\ \A k \in SetKeys : rec[k] \in ValuesOf[k] \cup {Absent}
  /\ wiped \cup cut \subseteq SetKeys

\* Every record of the tables has the effect a record of its key and value
\* has: "Aqui hacemos las operaciones que causan cambios de estado internos.
\* Es decir, los registros que por existir modifican estructuras internas"
\* (initdb, s_bdd.c:2787, for a start from the cache).  One kind of record is
\* without effect: a bot's, once a record of OPERDB under the same name was
\* deleted (s_bdd.c:489-553), and a start that reads the deletion from the file
\* of OPERDB takes the effect away again; a new record for the bot restores it.
RecordsTakeEffect ==
  /\ \A k \in SetKeys \ cut : rec[k] # Absent => conf_[k] = Applied(k, rec[k])
  /\ \A k \in cut : k[1] = "bots" /\ rec[k] # Absent /\ conf_[k] = Initially(k)

\* However a table came to hold what it holds, by new records, changed ones,
\* deletions, a drop or a start from the files, every variable is what the
\* tables make it: the effect of its record (RecordsTakeEffect, which says where
\* it has none), or its first value when there is no record.  Only what was in
\* effect when its whole table was dropped stays until the next start
\* (db_insertar_registro, db_eliminar_registro, borrar_db, initdb2).
SettingsFollow ==
  /\ SettingsTypeOK
  /\ RecordsTakeEffect
  /\ \A k \in SetKeys \ wiped : rec[k] = Absent => conf_[k] = Initially(k)
=============================================================================
