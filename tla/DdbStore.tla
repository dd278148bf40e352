------------------------------ MODULE DdbStore ------------------------------
(***************************************************************************)
(* One table of the distributed database on the disk of one server: the    *)
(* file tabla.<c>, its line in the file "hashes" and the mmap cache        *)
(* (BDD_MMAP), as db_alta, db_pack, the D handler of m_db, initdb2,        *)
(* mmap_cache and db_persistent_commit of ircd/s_bdd.c write and read      *)
(* them.  A handler is split where it touches the disk, because the        *)
(* process may end between any two writes (kill, abort, power, db_die).    *)
(*                                                                         *)
(* actualiza_hash chains the cipher over the lines, so the hash of a file  *)
(* is modelled by the sequence of its lines: equal hashes, equal files.    *)
(* portable_stat (size and mtime) is a counter of modifications: writes    *)
(* that matter are taken to be a second apart or to change the size.       *)
(***************************************************************************)
EXTENDS DdbRecord, Sequences

CONSTANTS
    WriteVal,   \* values in the records that arrive (NoValue deletes)
    MaxCrash,   \* bound: unplanned ends of the process
    MaxStop,    \* bound: planned ends (DIE, RESTART, SIGTERM)
    MaxTamper,  \* bound: modifications of the file by somebody else
    MaxDrop     \* bound: D orders

ASSUME StoreConstants ==
    /\ WriteVal \subseteq Val
    /\ MaxCrash \in Nat
    /\ MaxStop \in Nat
    /\ MaxTamper \in Nat
    /\ MaxDrop \in Nat

VARIABLES
    file,     \* the lines of tabla.<c>
    hfile,    \* the hash of this table in the file "hashes"
    stat,     \* get_stat of tabla.<c>
    mem,      \* tabla_datos, tabla_serie as a Table
    hash,     \* tabla_hash_hi, tabla_hash_lo
    tstat,    \* tabla_stats
    pc,       \* what the process is doing
    reg,      \* the record being handled
    cache,    \* the mmap cache
    crashes, stops, tampers, dels

vars == <<file, hfile, stat, mem, hash, tstat, pc, reg, cache,
          crashes, stops, tampers, dels>>

disk == <<file, hfile, stat>>
bounds == <<crashes, stops, tampers, dels>>

\* A line that is no record: half-moved bytes of a compaction.
Garbage == [serie |-> 0, key |-> Star, val |-> NoValue]
NoReg == Garbage

Lines == Seq(Record \cup {Garbage})

\* ver: "ok" (mmap_cache_version()), "used" (after the XOR) or "zero".
\* dirty: the arena has changed since the hash of the cache was computed.
Cache == [ver : {"ok", "used", "zero"}, dirty : BOOLEAN, hfile : Lines,
          stat : Nat, hash : Lines, mem : Table]

NoCache == [ver |-> "zero", dirty |-> TRUE, hfile |-> <<>>, stat |-> 0,
            hash |-> <<>>, mem |-> Empty]

\* initdb2: the table a file stands for; a later line replaces an earlier.
LastOf(f, k) == {i \in 1..Len(f) : f[i].key = k /\
                                    \A j \in (i + 1)..Len(f) : f[j].key # k}

TableOf(f) ==
    [serie |-> IF f = <<>> THEN 0 ELSE f[Len(f)].serie,
     vals |-> [k \in Key |-> IF LastOf(f, k) = {} THEN NoValue
                             ELSE f[CHOOSE i \in LastOf(f, k) : TRUE].val]]

\* db_pack reads the lines one by one and moves those down that still say
\* what the memory says: what it has written after i lines.
SameAs(t, l) == l.key \in Key /\ l.val # NoValue /\ t.vals[l.key] = l.val

Moved(f, t) ==
    LET M[i \in 0..Len(f)] == IF i = 0 THEN <<>>
                              ELSE IF SameAs(t, f[i]) THEN Append(M[i - 1], f[i])
                              ELSE M[i - 1]
    IN  M

Kept(f, t) == Moved(f, t)[Len(f)]

Init ==
    /\ file = <<>> /\ hfile = <<>> /\ stat = 0
    /\ mem = Empty /\ hash = <<>> /\ tstat = 0
    /\ pc = "down" /\ reg = NoReg
    /\ cache = NoCache
    /\ crashes = 0 /\ stops = 0 /\ tampers = 0 /\ dels = 0

-----------------------------------------------------------------------------
(* db_alta.                                                                *)

\* The process ends (db_die, s_die, a crash) and its memory is gone.
Dies == /\ pc' = "down"
        /\ mem' = Empty /\ hash' = <<>> /\ tstat' = 0 /\ reg' = NoReg

\* Somebody else has written the file: every operation checks and dies.
Modified == stat # tstat

\* The hash is brought up to date, the line is appended to the file.
AltaWrite(r) ==
    /\ pc = "idle" /\ r.key # Star /\ r.serie > mem.serie
    /\ ~Modified
    /\ hash' = Append(hash, r)
    /\ file' = Append(file, r)
    /\ stat' = stat + 1 /\ tstat' = stat + 1
    /\ reg' = r /\ pc' = "alta"
    /\ UNCHANGED <<hfile, mem, cache, bounds>>

\* almacena_hash.
AltaHash ==
    /\ pc = "alta"
    /\ hfile' = hash
    /\ pc' = "alta_mem"
    /\ UNCHANGED <<file, stat, mem, hash, tstat, reg, cache, bounds>>

\* tabla_serie and db_insertar_registro or db_eliminar_registro.
AltaMem ==
    /\ pc = "alta_mem"
    /\ mem' = After(mem, reg)
    /\ cache' = [cache EXCEPT !.dirty = TRUE]
    /\ reg' = NoReg /\ pc' = "idle"
    /\ UNCHANGED <<file, hfile, stat, hash, tstat, bounds>>

-----------------------------------------------------------------------------
(* db_pack.                                                                *)

\* The lines are moved down in the mapped file; until it is cut it holds
\* half-moved bytes, unless every line stays where it is.
PackMove(r) ==
    /\ pc = "idle" /\ r.key = Star /\ r.serie > mem.serie
    /\ ~Modified
    /\ mem' = [mem EXCEPT !.serie = r.serie]
    /\ hash' = Kept(file, mem)
    /\ IF Kept(file, mem) = file
       THEN UNCHANGED <<file, stat>>
       ELSE file' = Append(Kept(file, mem), Garbage) /\ stat' = stat + 1
    /\ reg' = r /\ pc' = "pack"
    /\ UNCHANGED <<hfile, tstat, cache, bounds>>

PackTruncate ==
    /\ pc = "pack"
    /\ file' = hash
    /\ stat' = stat + 1
    /\ pc' = "pack_cut"
    /\ UNCHANGED <<hfile, mem, hash, tstat, reg, cache, bounds>>

\* The checkpoint line is written after the cut.
PackWrite ==
    /\ pc = "pack_cut"
    /\ file' = Append(file, reg)
    /\ stat' = stat + 1 /\ tstat' = stat + 1
    /\ hash' = Append(hash, reg)
    /\ pc' = "pack_hash"
    /\ UNCHANGED <<hfile, mem, reg, cache, bounds>>

PackHash ==
    /\ pc = "pack_hash"
    /\ hfile' = hash
    /\ reg' = NoReg /\ pc' = "idle"
    /\ UNCHANGED <<file, stat, mem, hash, tstat, cache, bounds>>

-----------------------------------------------------------------------------
(* The D order.                                                            *)

DropTruncate ==
    /\ pc = "idle" /\ dels < MaxDrop
    /\ file' = <<>>
    /\ stat' = stat + 1 /\ tstat' = stat + 1
    /\ pc' = "drop" /\ dels' = dels + 1
    /\ UNCHANGED <<hfile, mem, hash, reg, cache, crashes, stops, tampers>>

\* borrar_db and almacena_hash.
DropHash ==
    /\ pc = "drop"
    /\ mem' = Empty /\ hash' = <<>> /\ hfile' = <<>>
    /\ cache' = [cache EXCEPT !.dirty = TRUE]
    /\ pc' = "idle"
    /\ UNCHANGED <<file, stat, tstat, reg, bounds>>

-----------------------------------------------------------------------------
(* Boot: mmap_cache, then the file if the cache does not serve.            *)

Marked(v) == CASE v = "ok" -> "used" [] v = "used" -> "ok" [] OTHER -> "zero"

\* The version in the cache is changed in place before anything is read, so
\* that a cache is used once; pc keeps what the version was.
BootMark ==
    /\ pc = "down"
    /\ pc' = IF cache.ver = "ok" THEN "boot_ok" ELSE "boot_bad"
    /\ cache' = [cache EXCEPT !.ver = Marked(@)]
    /\ UNCHANGED <<file, hfile, stat, mem, hash, tstat, reg, bounds>>

Hit_AnyStat == pc = "boot_ok" /\ cache.hfile = hfile /\ ~cache.dirty \* mutant

\* The version, the hash file, the hash of the arena and the stat agree.
Hit ==
    /\ pc = "boot_ok"
    /\ cache.hfile = hfile
    /\ ~cache.dirty
    /\ cache.stat = stat

BootHit ==
    /\ Hit
    /\ mem' = cache.mem /\ hash' = cache.hash
    /\ tstat' = stat
    /\ reg' = NoReg /\ pc' = "idle"
    /\ UNCHANGED <<file, hfile, stat, cache, bounds>>

\* Mutant: the stored hash is not compared.
BootRead_Trusting ==
    /\ pc \in {"boot_ok", "boot_bad"} /\ ~Hit
    /\ cache' = NoCache
    /\ reg' = NoReg
    /\ mem' = TableOf(file) /\ hash' = file /\ tstat' = stat /\ hfile' = file
    /\ pc' = "idle"
    /\ UNCHANGED <<file, stat, bounds>>

\* A cache that does not serve is zeroed, and initdb2 reads the file and
\* compares its hash with the stored one.
BootRead ==
    /\ pc \in {"boot_ok", "boot_bad"} /\ ~Hit
    /\ cache' = NoCache
    /\ reg' = NoReg
    /\ \/ /\ file = hfile
          /\ mem' = TableOf(file) /\ hash' = file /\ tstat' = stat
          /\ pc' = "idle"
          /\ UNCHANGED <<file, stat>>
       \/ /\ file # hfile
          /\ mem' = Empty /\ hash' = <<>>
          /\ file' = <<>> /\ stat' = stat + 1 /\ tstat' = stat + 1
          /\ pc' = "drop"
    /\ UNCHANGED <<hfile, bounds>>

-----------------------------------------------------------------------------
(* The end of the process.                                                 *)

Crash ==
    /\ pc # "down" /\ crashes < MaxCrash
    /\ Dies
    /\ crashes' = crashes + 1
    /\ UNCHANGED <<disk, cache, stops, tampers, dels>>

\* db_persistent_commit and exit.
StopCommit ==
    /\ pc = "idle" /\ stops < MaxStop
    /\ ~Modified
    /\ cache' = [ver |-> "ok", dirty |-> FALSE, hfile |-> hfile,
                 stat |-> tstat, hash |-> hash, mem |-> mem]
    /\ Dies
    /\ stops' = stops + 1
    /\ UNCHANGED <<disk, crashes, tampers, dels>>

\* An operation finds the file modified: db_die_persistent.
DieModified ==
    /\ pc = "idle" /\ Modified
    /\ Dies
    /\ UNCHANGED <<disk, cache, bounds>>

\* The file is edited from outside, which spoils its last line.
Tamper ==
    /\ pc \in {"idle", "down"} /\ tampers < MaxTamper
    /\ file # <<>>
    /\ file' = [file EXCEPT ![Len(file)] = Garbage]
    /\ stat' = stat + 1
    /\ tampers' = tampers + 1
    /\ UNCHANGED <<hfile, mem, hash, tstat, pc, reg, cache, crashes, stops,
                   dels>>

Incoming == [serie : 1..MaxSerie, key : Key, val : WriteVal]
            \cup [serie : 1..MaxSerie, key : {Star}, val : {NoValue}]

Next ==
    \/ \E r \in Incoming : AltaWrite(r) \/ PackMove(r)
    \/ AltaHash \/ AltaMem
    \/ PackTruncate \/ PackWrite \/ PackHash
    \/ DropTruncate \/ DropHash
    \/ BootMark \/ BootHit \/ BootRead
    \/ Crash \/ StopCommit \/ DieModified \/ Tamper

Spec == Init /\ [][Next]_vars

-----------------------------------------------------------------------------
(* Properties.                                                             *)

\* Types; in particular a line that is no record never enters a hash.
TypeOK ==
    /\ file \in Lines /\ hfile \in Seq(Record) /\ hash \in Seq(Record)
    /\ stat \in Nat /\ tstat \in Nat
    /\ mem \in Table
    /\ reg \in Record \cup {NoReg}
    /\ cache \in Cache
    /\ pc \in {"down", "boot_ok", "boot_bad", "idle", "alta", "alta_mem",
               "pack", "pack_cut", "pack_hash", "drop"}

\* Between two handlers, the file, the stored hash, the hash in memory and
\* the table in memory agree, whatever way the server was started (the cache
\* or the file) and whatever crash came before, unless the file has been
\* modified from outside, which the next operation detects by its stat.
IdleAgrees ==
    /\ TypeOK
    /\ pc = "idle" /\ ~Modified =>
        file = hash /\ hfile = hash /\ TableOf(file) = mem

\* The table a server promises.  A record counts once its hash is stored: a
\* stop before that loses the table, a stop after it loses nothing.
PromisedTable ==
    CASE pc \in {"down", "boot_ok", "boot_bad"} ->
            IF file = hfile THEN TableOf(file) ELSE Empty
      [] pc \in {"pack", "pack_cut", "pack_hash"} -> TableOf(hfile)
      [] pc = "alta_mem" -> After(mem, reg)
      [] OTHER -> mem

Promise == INSTANCE DdbTable
    WITH tab <- PromisedTable, up <- pc \notin {"down", "boot_ok", "boot_bad"}

\* db_alta, db_pack, D, crashes at any point of them, the boot check against
\* the stored hash and the cache implement the table of DdbTable: a restart
\* never shows part of a table, an older table or a spoiled line.
RefinesTable == Promise!TableSpec
=============================================================================
