----------------------------- MODULE ConfLines -----------------------------
(***************************************************************************)
(* The lines of ircd.conf and the connection classes in memory: who is     *)
(* attached to which line (s_conf.c), the count of links each class keeps  *)
(* against its maximum (class.c), and rehash, which reads the file again   *)
(* while clients hold on to the old lines.                                 *)
(*                                                                         *)
(* Lines and classes are objects that are made and freed; their numbers    *)
(* are never used again.  Only I, C, H and O lines and the K lines' effect *)
(* are kept.  A line matches whom it names.                                *)
(***************************************************************************)
EXTENDS Integers, Sequences, FiniteSets, SequencesExt, FiniteSetsExt

CONSTANTS
    People, Links,  \* the clients and the servers that connect
    Files,          \* contents of ircd.conf: a sequence of lines, and whom its K lines hit
                    \* whom no exception spares (find_kill)
    MaxRehash, MaxOpers     \* bounds: rehashes, OPER commands

LineKinds == {"I", "C", "H", "O", "Y"}

ASSUME ConfConstants ==
    /\ People \cap Links = {} /\ MaxRehash \in Nat /\ MaxOpers \in Nat
    /\ \A f \in Files :
         /\ \A i \in 1..Len(f.lines) : f.lines[i].kind \in LineKinds
         \* every class a line names has its Y line, or is class 0
         /\ \A i \in 1..Len(f.lines) : f.lines[i].class = 0 \/
                \E j \in 1..Len(f.lines) : f.lines[j].kind = "Y" /\ f.lines[j].class = f.lines[i].class

VARIABLES
    line,       \* the ConfItem objects: kind, whom they name, class, clients
    conf,       \* the list conf, the last read first
    class,      \* the ConfClass objects: number, MaxLinks, Links
    classes,    \* the list classes, class 0 first
    confs,      \* confs[c]: the lines c is attached to, the last first
    present,    \* who is connected
    rehashes, opers     \* counts of what the bounds limit

confVars == <<line, conf, class, classes, confs, present, rehashes, opers>>

Marked == -1    \* MarkDelete: MaxLinks is (unsigned int)-1

ConfWorld == [line |-> line, conf |-> conf, class |-> class, classes |-> classes, confs |-> confs]

\* CONF_CLIENT_MASK: the lines whose attachments are counted in their class.
Counted(kind) == kind \in {"I", "C", "O"}

\* The sequence s itself; TLC appends wrongly to a function that it has not yet evaluated.
Listed(s) == s \o <<>>

find_class(w, number) ==
    LET at == SelectInSeq(w.classes, LAMBDA k : w.class[k].number = number)
    IN w.classes[IF at = 0 THEN 1 ELSE at]

add_class(w, number, max) ==
    LET t == find_class(w, number) IN
    IF t = w.classes[1] /\ number # 0
    THEN [w EXCEPT !.class = Append(@, [number |-> number, max |-> max, links |-> 0, freed |-> FALSE]),
                   !.classes = InsertAt(@, 2, Len(w.class) + 1)]
    ELSE [w EXCEPT !.class[t].max = max]

\* The marked classes leave the list; those with links are kept for their lines.
check_class(w) ==
    LET Stays(k) == w.class[k].max # Marked IN
    [w EXCEPT !.classes = SelectSeq(@, Stays),
              !.class = Listed([k \in DOMAIN w.class |->
                  IF Contains(w.classes, k) /\ ~Stays(k) /\ w.class[k].links = 0
                  THEN [w.class[k] EXCEPT !.freed = TRUE] ELSE w.class[k]])]

Full(w, i) == LET k == w.class[w.line[i].class] IN k.max > 0 /\ k.links >= k.max

MayAttach(w, c, i) ==
    /\ ~Contains(w.confs[c], i) /\ ~w.line[i].illegal
    /\ w.line[i].kind \in {"I", "O"} => ~Full(w, i)

attach_conf(w, c, i) ==
    IF ~MayAttach(w, c, i) THEN w
    ELSE [w EXCEPT !.confs[c] = <<i>> \o @, !.line[i].clients = @ + 1,
                   !.class[w.line[i].class].links = IF Counted(w.line[i].kind) THEN @ + 1 ELSE @]

detach_conf(w, c, i) ==
    LET links == w.class[w.line[i].class].links IN
    [w EXCEPT !.confs[c] = SelectSeq(@, LAMBDA j : j # i),
              !.line[i] = [@ EXCEPT !.clients = @ - 1,
                                    !.freed = w.line[i].illegal /\ w.line[i].clients = 1],
              !.class[w.line[i].class].links =
                  IF Counted(w.line[i].kind) /\ links > 0 THEN @ - 1 ELSE @]

\* det_confs_butmask: all but the lines of kinds keep.
det_confs_butmask(w, c, keep) ==
    FoldLeft(LAMBDA v, i : IF w.line[i].kind \in keep THEN v ELSE detach_conf(v, c, i), w, w.confs[c])

\* attach_confs: the listed lines of these kinds that name c.
attach_confs(w, c, kinds) ==
    FoldLeft(LAMBDA v, i : IF w.line[i].kind \in kinds /\ c \in w.line[i].who
                           THEN attach_conf(v, c, i) ELSE v, w, w.conf)

\* find_conf_exact, find_conf: the first listed line of the kind that names c; 0 for none.
\* An O line must have room in its class.
FirstLine(w, c, kind) ==
    LET Room(i) == LET max == w.class[w.line[i].class].max IN max = Marked \/ w.line[i].clients < max
        at == SelectInSeq(w.conf, LAMBDA i : w.line[i].kind = kind /\ c \in w.line[i].who
                                             /\ (kind = "O" => Room(i)))
    IN IF at = 0 THEN 0 ELSE w.conf[at]

-----------------------------------------------------------------------------
(* Reading the file.                                                       *)

\* find_conf_entry: an I line that differs at most in its class; 0 for none.
find_conf_entry(w, l) ==
    LET at == SelectInSeq(w.conf, LAMBDA i : w.line[i].kind = l.kind /\ w.line[i].who = l.who)
    IN IF at = 0 THEN 0 ELSE w.conf[at]

Reclassed_KeepsLinks(w, i, k) ==
    [w EXCEPT !.line[i] = [@ EXCEPT !.class = k, !.illegal = FALSE],
              !.conf = <<i>> \o SelectSeq(@, LAMBDA j : j # i)]
\* An old I line takes the class of the new one, and its clients with it.
Reclassed(w, i, k) ==
    LET old == w.line[i].class
        n   == w.line[i].clients
        left == [w EXCEPT !.class[old].links = @ - n]
    IN [left EXCEPT !.class[k].links = @ + n, !.line[i] = [@ EXCEPT !.class = k, !.illegal = FALSE],
                    !.conf = <<i>> \o SelectSeq(@, LAMBDA j : j # i)]

\* One line of the file (initconf): a class, an I line we still have, or a new object.
ReadLine(w, l) ==
    LET k    == find_class(w, l.class)
        same == IF l.kind = "I" THEN find_conf_entry(w, l) ELSE 0
    IN IF l.kind = "Y" THEN add_class(w, l.class, l.max)
       ELSE IF same # 0 THEN Reclassed(w, same, k)
       ELSE [w EXCEPT !.line = Append(@, [kind |-> l.kind, who |-> l.who, class |-> k, clients |-> 0,
                                          illegal |-> FALSE, freed |-> FALSE]),
                      !.conf = <<Len(w.line) + 1>> \o @]

initconf(w, f) == check_class(FoldLeft(ReadLine, w, f.lines))

\* rehash, first: lines in use become illegal, and but for I lines leave the list; others are freed.
Illegalized(w) ==
    [w EXCEPT !.conf = SelectSeq(@, LAMBDA i : w.line[i].clients > 0 /\ w.line[i].kind = "I"),
              !.line = Listed([i \in DOMAIN w.line |->
                  IF ~Contains(w.conf, i) THEN w.line[i]
                  ELSE [w.line[i] EXCEPT !.illegal = TRUE, !.freed = w.line[i].clients = 0]]),
              !.class = Listed([k \in DOMAIN w.class |->
                  IF Contains(Tail(w.classes), k) THEN [w.class[k] EXCEPT !.max = Marked]
                  ELSE w.class[k]])]

\* Then, after the file: the I lines that are not in it any more.
Flushed(w) ==
    [w EXCEPT !.conf = SelectSeq(@, LAMBDA i : ~w.line[i].illegal),
              !.line = Listed([i \in DOMAIN w.line |->
                  IF Contains(w.conf, i) /\ w.line[i].illegal /\ w.line[i].clients = 0
                  THEN [w.line[i] EXCEPT !.freed = TRUE] ELSE w.line[i]])]

\* Last, server by server, the old H lines go and the new ones come.
Relinked(w, s) == attach_confs(det_confs_butmask(w, s, {"C", "I", "O"}), s, {"H"})

\* What rehash makes of w: read is empty when the file cannot be opened.
Rehashed(w, read) ==
    LET old == Illegalized(w)
        new == Flushed(IF read = {} THEN check_class(old)
                       ELSE initconf(old, CHOOSE f \in read : TRUE))
    IN FoldSet(LAMBDA s, v : Relinked(v, s), new, present \cap Links)

-----------------------------------------------------------------------------
ConfBecomes(w) ==
    /\ line' = w.line /\ conf' = w.conf /\ class' = w.class
    /\ classes' = w.classes /\ confs' = w.confs

Boot == [line |-> <<>>, conf |-> <<>>, classes |-> <<1>>,
         class |-> <<[number |-> 0, max |-> 1, links |-> 0, freed |-> FALSE]>>,
         confs |-> [c \in People \cup Links |-> <<>>]]

\* initclass and the first initconf.
ConfInit ==
    /\ \E f \in Files :
         LET w == initconf(Boot, f) IN
         /\ line = w.line /\ conf = w.conf /\ class = w.class
         /\ classes = w.classes /\ confs = w.confs
    /\ present = {} /\ rehashes = 0 /\ opers = 0

\* attach_Iline, by check_client.
Admit(u) ==
    LET i == FirstLine(ConfWorld, u, "I") IN
    /\ u \in People \ present
    /\ i # 0 /\ MayAttach(ConfWorld, u, i)
    /\ ConfBecomes(attach_conf(ConfWorld, u, i))
    /\ present' = present \cup {u}
    /\ UNCHANGED <<rehashes, opers>>

\* check_server: the C line, and the H lines with it.
AdmitServer(s) ==
    LET i == FirstLine(ConfWorld, s, "C") IN
    /\ s \in Links \ present
    /\ i # 0
    /\ ConfBecomes(attach_confs(attach_conf(ConfWorld, s, i), s, {"H"}))
    /\ present' = present \cup {s}
    /\ UNCHANGED <<rehashes, opers>>

\* m_oper: the I line gives way to a line of the operator's own, of the class of the O line,
\* which stands in no list.
OperLine(u) ==
    LET o    == FirstLine(ConfWorld, u, "O")
        left == det_confs_butmask(ConfWorld, u, {"C", "H", "O"})
        own  == [left EXCEPT !.line = Append(@,
                   [kind |-> "I", who |-> {u}, class |-> find_class(left, class[line[o].class].number),
                    clients |-> 0, illegal |-> FALSE, freed |-> FALSE])]
    IN /\ opers < MaxOpers /\ opers' = opers + 1
       /\ u \in People \cap present /\ o # 0
       /\ ConfBecomes(attach_conf(own, u, Len(own.line)))
       /\ UNCHANGED <<present, rehashes>>

\* close_connection.
Leave(c) ==
    /\ c \in present /\ present' = present \ {c}
    /\ ConfBecomes(det_confs_butmask(ConfWorld, c, {}))
    /\ UNCHANGED <<rehashes, opers>>

\* rehash; the clients that a K line of the new file hits are let go.
Rehash(read) ==
    LET killed == {u \in present \cap People : \E f \in read : u \in f.kills}
        w == FoldSet(LAMBDA u, v : det_confs_butmask(v, u, {}), Rehashed(ConfWorld, read), killed)
    IN /\ rehashes < MaxRehash /\ rehashes' = rehashes + 1
       /\ ConfBecomes(w) /\ present' = present \ killed
       /\ UNCHANGED opers

ConfNext ==
    \/ \E u \in People : Admit(u) \/ OperLine(u)
    \/ \E s \in Links : AdmitServer(s)
    \/ \E c \in People \cup Links : Leave(c)
    \/ \E f \in Files : Rehash({f})
    \/ Rehash({})

ConfSpec == ConfInit /\ [][ConfNext]_confVars

-----------------------------------------------------------------------------
ConfTypeOK ==
    /\ \A i \in DOMAIN line : line[i].kind \in LineKinds /\ line[i].clients \in Nat
    /\ \A k \in DOMAIN class : class[k].links \in Nat /\ class[k].max \in Nat \cup {Marked}
    /\ conf \in Seq(DOMAIN line) /\ classes \in Seq(DOMAIN class)
    /\ confs \in [People \cup Links -> Seq(DOMAIN line)] /\ present \subseteq People \cup Links

Attachments == {<<c, i>> \in (People \cup Links) \X DOMAIN line : Contains(confs[c], i)}

(* The links a class counts against its maximum are the attachments to the *)
(* lines of that class, whatever classes and lines have come and gone by   *)
(* rehash since; and no client, and no listed line, is left with a line or *)
(* a class that has been freed.                                            *)
LinksAreAttachments ==
    /\ ConfTypeOK
    /\ \A k \in DOMAIN class : ~class[k].freed =>
         class[k].links = Cardinality({a \in Attachments :
                              line[a[2]].class = k /\ Counted(line[a[2]].kind)})
    /\ \A i \in ToSet(conf) \cup {a[2] : a \in Attachments} :
         ~line[i].freed /\ ~class[line[i].class].freed

=============================================================================
