-------------------------------- MODULE Masks --------------------------------
(****************************************************************************)
(* The masks of the server (match.c): bans, G-lines, silence lists, K lines *)
(* and queries all ask whether a name matches a mask with the wildcards *   *)
(* and ?, \* and \? standing for the characters themselves.  Four           *)
(* algorithms answer, written for speed and not from one definition:        *)
(*   match and match_case   the text of a mask against a name,              *)
(*   matchcomp, matchexec   the same with the mask compiled beforehand,     *)
(*   mmatch                 whether one mask makes another one superfluous, *)
(*   collapse, matchdecomp  which rewrite a mask and must keep its meaning. *)
(* Each is translated here, pointers as positions and labels as operators,  *)
(* and compared with Means, the one-line-a-case definition of a match.      *)
(*                                                                          *)
(* The state is what is being asked: a mask typed character by character,   *)
(* and with it a name, the bytes that happen to lie behind the name in      *)
(* memory, or a second mask.  Two letters that differ in case only, and the *)
(* wildcards as characters of a name, tell the algorithms apart.            *)
(****************************************************************************)
EXTENDS SequencesExt, Integers

CONSTANTS
  MaskChars,      \* characters a mask is typed with
  NameChars,      \* characters of a name
  MaxMask,        \* bound: length of a mask
  MaxName,        \* bound: length of a name
  MaxOther,       \* bound: length of each of the two masks given to mmatch
  Behind          \* what may follow the name's terminator in memory

VARIABLES
  mask,           \* the mask
  name,           \* the name
  behind,         \* the bytes behind the name
  other           \* the second mask, for mmatch

maskVars == <<mask, name, behind, other>>

NUL == "NUL"
\* The backslash is the upper case of the bar, as the tables of common.c have it.
toLower(c) == CASE c = "A" -> "a" [] c = "Z" -> "z" [] c = "\\" -> "|" [] OTHER -> c
Lower(s) == [i \in DOMAIN s |-> toLower(s[i])] \o <<>>
Char(s, i) == IF i \in DOMAIN s THEN s[i] ELSE NUL

\* A backslash quotes a wildcard and nothing else.
Quotes(s, i) == Char(s, i) = "\\" /\ Char(s, i + 1) \in {"*", "?"}
LowerMask(m) == [i \in DOMAIN m |-> IF Quotes(m, i) THEN m[i] ELSE toLower(m[i])] \o <<>>

\* The element of a mask at i: a wildcard, the end, or a character to be met.
Element(m, i) ==
  IF Quotes(m, i) THEN [kind |-> "char", ch |-> m[i + 1], next |-> i + 2]
  ELSE [kind |-> IF Char(m, i) \in {"*", "?", NUL} THEN Char(m, i) ELSE "char",
        ch |-> Char(m, i), next |-> i + 1]

(****************************************************************************)
(* What a mask means.                                                       *)
(****************************************************************************)
RECURSIVE Means(_, _)
Means(m, s) ==
  LET e == Element(m, 1)
      rest == SubSeq(m, e.next, Len(m))
  IN CASE e.kind = NUL -> s = <<>>
       [] e.kind = "*" -> \E k \in 0..Len(s) : Means(rest, SubSeq(s, k + 1, Len(s)))
       [] OTHER        -> /\ s # <<>>
                          /\ e.kind = "char" => Head(s) = e.ch
                          /\ Means(rest, Tail(s))

(****************************************************************************)
(* match, match_case.  s is the memory from the name on, so that a pointer  *)
(* moved past the terminator reads what lies behind it.                     *)
(****************************************************************************)
RECURSIVE GotStar(_, _, _, _)
RECURSIVE Seek(_, _, _, _)
RECURSIVE Chunk(_, _, _, _, _, _)

\* got_star: wildcards after a star; each ? takes a character of the name.
GotStar(m, s, i, j) ==
  LET e == Element(m, i)
  IN CASE e.kind = NUL -> TRUE
       [] e.kind = "*" -> GotStar(m, s, e.next, j)
       [] e.kind = "?" -> Char(s, j) # NUL /\ GotStar(m, s, e.next, j + 1)
       [] OTHER        -> Seek(m, s, i, j)

\* The next place where the first character of the chunk at i occurs.
Seek(m, s, i, j) ==
  LET e == Element(m, i)
  IN IF Char(s, j) = e.ch THEN Chunk(m, s, e.next, j + 1, i, j + 1)
     ELSE Char(s, j + 1) # NUL /\ Seek(m, s, i, j + 1)

\* The rest of the chunk, and back to bm, bs when it does not fit.
Chunk(m, s, i, j, bm, bs) ==
  LET e == Element(m, i)
  IN CASE e.kind = NUL -> Char(s, j) = NUL \/ GotStar(m, s, bm, bs)
       [] e.kind = "*" -> GotStar(m, s, e.next, j)
       [] e.kind = "?" -> Char(s, j) # NUL /\ Chunk(m, s, e.next, j + 1, bm, bs)
       [] OTHER        -> IF Char(s, j) = e.ch
                          THEN Chunk(m, s, e.next, j + 1, bm, bs)
                          ELSE GotStar(m, s, bm, bs)

RECURSIVE HeadOf(_, _, _, _)
HeadOf(m, s, i, j) ==
  LET e == Element(m, i)
  IN CASE e.kind = NUL -> Char(s, j) = NUL
       [] e.kind = "*" -> GotStar(m, s, e.next, j)
       [] e.kind = "?" -> Char(s, j) # NUL /\ HeadOf(m, s, e.next, j + 1)
       [] OTHER        -> Char(s, j) = e.ch /\ HeadOf(m, s, e.next, j + 1)

match_case(m, s) == HeadOf(m, s, 1, 1)
match(m, s) == HeadOf(LowerMask(m), Lower(s), 1, 1)

(****************************************************************************)
(* collapse: from the first ** or *? on, a star is moved behind the ?s that *)
(* follow it, and stars in a row become one.                                *)
(****************************************************************************)
RECURSIVE Squeeze(_, _)
Squeeze(m, star) ==
  LET e == Element(m, 1)
      rest == SubSeq(m, e.next, Len(m))
  IN CASE e.kind = NUL -> IF star THEN <<"*">> ELSE <<>>
       [] e.kind = "*" -> Squeeze(rest, TRUE)
       [] e.kind = "?" -> <<"?">> \o Squeeze(rest, star)
       [] OTHER        -> (IF star THEN <<"*">> ELSE <<>>) \o SubSeq(m, 1, e.next - 1)
                          \o Squeeze(rest, FALSE)

RECURSIVE collapse(_)
collapse(m) ==
  LET e == Element(m, 1)
      rest == SubSeq(m, e.next, Len(m))
  IN CASE e.kind = NUL -> <<>>
       [] e.kind = "*" /\ Char(m, 2) \in {"*", "?"} -> Squeeze(m, FALSE)
       [] OTHER -> SubSeq(m, 1, e.next - 1) \o collapse(rest)

(****************************************************************************)
(* matchcomp: lower case, stars as Z and ?s as A, a star behind the ?s that *)
(* follow it; what follows the last star is reversed and moved, with its    *)
(* star, right behind the head.  minlen counts all but the stars; the set   *)
(* of characters it also computes (charset) nobody compares here.           *)
(****************************************************************************)
RECURSIVE Encoded(_, _)
Encoded(m, star) ==
  LET e == Element(m, 1)
      rest == SubSeq(m, e.next, Len(m))
      z == IF star THEN <<"Z">> ELSE <<>>
  IN CASE e.kind = NUL -> z
       [] e.kind = "*" -> Encoded(rest, TRUE)
       [] e.kind = "?" -> <<"A">> \o Encoded(rest, star)
       [] OTHER        -> z \o <<toLower(e.ch)>> \o Encoded(rest, FALSE)

\* Mutant: the tail is left in the order it was written.
matchcomp_Unreversed(m) ==
  LET c == Encoded(m, FALSE)
      zs == {i \in DOMAIN c : c[i] = "Z"}
      fs == Min(zs)
      ls == Max(zs)
  IN [cmask |-> IF zs = {} THEN c
                ELSE SubSeq(c, 1, fs - 1) \o SubSeq(c, ls, Len(c)) \o SubSeq(c, fs, ls - 1),
      minlen |-> Cardinality({i \in DOMAIN c : c[i] # "Z"})]

matchcomp(m) ==
  LET c == Encoded(m, FALSE)
      zs == {i \in DOMAIN c : c[i] = "Z"}
      fs == Min(zs)
      ls == Max(zs)
  IN [cmask |-> IF zs = {} THEN c
                ELSE SubSeq(c, 1, fs - 1) \o <<"Z">>
                     \o Reverse(SubSeq(c, ls + 1, Len(c))) \o SubSeq(c, fs, ls - 1),
      minlen |-> Cardinality({i \in DOMAIN c : c[i] # "Z"})]

(****************************************************************************)
(* matchexec: head, tail, then the chunks from left to right; trash is how  *)
(* many characters of the name may still be skipped.                        *)
(****************************************************************************)
RECURSIVE FindChunk(_, _, _, _, _)
RECURSIVE TryChunk(_, _, _, _, _, _, _)

\* bb is the Z before the chunk, k the last place of the name already used.
FindChunk(s, c, bb, k, trash) ==
  IF Char(s, k + 1) = Char(c, bb + 1)
  THEN TryChunk(s, c, bb, k + 1, bb + 2, k + 2, trash)
  ELSE trash > 0 /\ FindChunk(s, c, bb, k + 1, trash - 1)

TryChunk(s, c, bb, bs, b, k, trash) ==
  CASE Char(c, b) = NUL -> TRUE
    [] Char(c, b) = "Z" -> FindChunk(s, c, b, k - 1, trash)
    [] Char(c, b) \in {"A", Char(s, k)} -> TryChunk(s, c, bb, bs, b + 1, k + 1, trash)
    [] OTHER -> trash > 0 /\ FindChunk(s, c, bb, bs, trash - 1)

\* The reversed tail against the end of the name; bs is where the head ended.
RECURSIVE TryTail(_, _, _, _, _, _)
TryTail(s, c, b, k, bs, trash) ==
  CASE Char(c, b) = NUL -> TRUE
    [] Char(c, b) = "Z" -> FindChunk(s, c, b, bs - 1, trash)
    [] Char(c, b) \in {"A", Char(s, k)} -> TryTail(s, c, b + 1, k - 1, bs, trash)
    [] OTHER -> FALSE

RECURSIVE TryHead(_, _, _, _)
TryHead(s, c, i, minlen) ==
  IF Char(s, i) = NUL
  THEN Char(c, i) = NUL \/ (Char(c, i) = "Z" /\ Char(c, i + 1) = NUL)
  ELSE CASE Char(c, i) = "Z" -> /\ Len(s) >= minlen
                                /\ TryTail(s, c, i + 1, Len(s), i, Len(s) - minlen)
         [] Char(c, i) \in {"A", Char(s, i)} -> TryHead(s, c, i + 1, minlen)
         [] OTHER -> FALSE

matchexec(s, c) == TryHead(Lower(s), c.cmask, 1, c.minlen)

(****************************************************************************)
(* matchdecomp: a compiled mask back as text.                               *)
(****************************************************************************)
Printed(c) ==
  FlattenSeq([i \in DOMAIN c |->
    CASE c[i] = "A" -> <<"?">>
      [] c[i] = "Z" -> <<"*">>
      [] c[i] \in {"*", "?"} -> <<"\\", c[i]>>
      [] OTHER -> <<c[i]>>])

matchdecomp(c) ==
  LET zs == {i \in DOMAIN c : c[i] = "Z"}
      fz == Min(zs)
      ends == {i \in zs : i > fz}
      endtail == IF ends = {} THEN Len(c) + 1 ELSE Min(ends)
      tail == Printed(Reverse(SubSeq(c, fz + 1, endtail - 1)))
  IN CASE zs = {}   -> Printed(c)
       [] ends = {} -> Printed(SubSeq(c, 1, fz)) \o tail
       [] OTHER     -> Printed(SubSeq(c, 1, fz))
                       \o Printed(SubSeq(c, endtail + 1, Len(c))) \o <<"*">> \o tail

(****************************************************************************)
(* mmatch: 0 when every name that matches n also matches m.  ma, na: where  *)
(* to try again after the last star of m (wild).                            *)
(****************************************************************************)
\* Mutant: a quoted star at the end of the mask is taken for a wildcard.
EndsInStar_Quoted(m) ==
  LET back == {i \in DOMAIN m : i = 1 \/ m[i] # "?"}
      i == Max(back)
  IN m # <<>> /\ i > 1 /\ m[i] = "*"

\* The last element before the end of the mask, ?s left out, is a real star.
EndsInStar(m) ==
  LET back == {i \in DOMAIN m : i = 1 \/ m[i] # "?"}
      i == Max(back)
  IN m # <<>> /\ i > 1 /\ m[i] = "*" /\ m[i - 1] # "\\"

AfterStars(m, i) == Min({k \in i..Len(m) + 1 : Char(m, k) # "*"})

RECURSIVE Compare(_, _, _, _, _, _, _)
RECURSIVE Retry(_, _, _, _, _, _)
RECURSIVE Override(_, _, _, _, _, _, _)

\* One round of the loop: a star of m, the ends, then the two characters.
Override(m, n, i, j, ma, na, wild) ==
  IF Char(m, i) = "*"
  THEN LET k == AfterStars(m, i)
       IN IF k > Len(m) /\ j > Len(n) THEN TRUE
          ELSE IF k > Len(m) THEN EndsInStar(m) \/ Retry(m, n, k, j, TRUE, "compare")
          ELSE j <= Len(n) /\ Compare(m, n, k, j, k, j, TRUE)
  ELSE IF i > Len(m)
  THEN j > Len(n) \/ EndsInStar(m) \/ (wild /\ Retry(m, n, ma, na, wild, "compare"))
  ELSE IF j > Len(n) THEN AfterStars(m, i) > Len(m)
  ELSE Compare(m, n, i, j, ma, na, wild)

\* m = ma; n = ++na, a quoted wildcard of n being one character.
Retry(m, n, ma, na, wild, then) ==
  LET j == na + (IF Quotes(n, na) THEN 2 ELSE 1)
  IN IF then = "compare" THEN Compare(m, n, ma, j, ma, j, wild)
     ELSE Override(m, n, ma, j, ma, j, wild)

Compare(m, n, i, j, ma, na, wild) ==
  LET mq == Quotes(m, i)
      nq == Quotes(n, j)
      mi == IF mq THEN i + 1 ELSE i
      nj == IF nq THEN j + 1 ELSE j
      mc == Char(m, mi)
      nc == Char(n, nj)
  IN IF \/ mc = "*" /\ ~mq
        \/ (~mq \/ nq) /\ toLower(mc) = toLower(nc)
        \/ mc = "?" /\ ~mq /\ (nc # "*" \/ nq)
     THEN Override(m, n, IF mc = NUL THEN mi ELSE mi + 1,
                         IF nc = NUL THEN nj ELSE nj + 1, ma, na, wild)
     ELSE wild /\ Retry(m, n, ma, na, wild, "round")

mmatch(m, n) == Override(m, n, 1, 1, 1, 1, FALSE)

-----------------------------------------------------------------------------

MaskInit == mask = <<>> /\ name = <<>> /\ behind = <<>> /\ other = <<>>

\* A mask to be asked about, typed by a user or read from a file.
TypeMask(c) ==
  /\ Len(mask) < MaxMask
  /\ name = <<>> /\ other = <<>> /\ behind = <<>>
  /\ mask' = Append(mask, c)
  /\ UNCHANGED <<name, behind, other>>

\* The name it is compared with.
TypeName(c) ==
  /\ Len(name) < MaxName /\ other = <<>> /\ behind = <<>>
  /\ name' = Append(name, c)
  /\ UNCHANGED <<mask, behind, other>>

\* Names stand in buffers that held longer ones before.
OldBytes(b) ==
  /\ behind = <<>> /\ other = <<>>
  /\ behind' = b
  /\ UNCHANGED <<mask, name, other>>

\* A second mask, to be added to the list that holds the first.
TypeOther(c) ==
  /\ name = <<>> /\ behind = <<>>
  /\ Len(mask) <= MaxOther /\ Len(other) < MaxOther
  /\ other' = Append(other, c)
  /\ UNCHANGED <<mask, name, behind>>

MaskNext ==
  \/ \E c \in MaskChars : TypeMask(c) \/ TypeOther(c)
  \/ \E c \in NameChars : TypeName(c)
  \/ \E b \in Behind : OldBytes(b)

MaskSpec == MaskInit /\ [][MaskNext]_maskVars

MaskTypeOK ==
  /\ mask \in Seq(MaskChars) /\ other \in Seq(MaskChars)
  /\ name \in Seq(NameChars)
  /\ behind \in Behind \union {<<>>}

\* Where match and match_case run off the name: a character is looked for after a
\* star, the search starts at the terminator, and the loop of match.c:217-219 asks
\* for the end of the name only after it has stepped on.  The name is used up in
\* one of two ways: what comes before the star took all of it, or the character
\* was found in its last place and what follows it there did not fit, so that the
\* search goes on one place further.  The rest of the mask, from that star on, is
\* then matched with the bytes behind.
RunsOff(m, s, b) ==
  /\ b # <<>>
  /\ \E i \in DOMAIN m :
       LET e == Element(m, i)
           wild == Max({0} \union {k \in 1..(i - 1) : m[k] \notin {"*", "?"} \/ Quotes(m, k - 1)})
           lead == SubSeq(m, 1, wild) \o SelectSeq(SubSeq(m, wild + 1, i - 1), LAMBDA c : c = "?")
           last == Len(s)
       IN /\ e.kind = "char" /\ ~Quotes(m, i - 1)
          /\ \E k \in (wild + 1)..(i - 1) : m[k] = "*"
          /\ \/ \A k \in 0..last : Means(lead, SubSeq(s, 1, k)) <=> k = last
             \/ /\ s # <<>> /\ s[last] = e.ch
                /\ Element(m, e.next).kind = "char"
                /\ Means(lead \o <<"*">>, SubSeq(s, 1, last - 1))
          /\ Means(<<"*">> \o SubSeq(m, i, Len(m)), b)

\* What match.c promises of a mask and a name ("return 0, if match, 1, if no match",
\* match.c:154-160): text and compiled form give the answer of the definition, with
\* and without regard to case; collapsed or decompiled, the mask matches the names
\* it matched.  The text form gives a second answer the definition does not know:
\* a name that does not match is taken for one that does when the search runs off
\* it (RunsOff) and finds the rest of the mask in the bytes behind; in no other
\* case, and never the other way round.
MaskMeaning ==
  LET mem == name \o <<NUL>> \o behind
      low == Lower(name)
      lowMask == LowerMask(mask)
      means == Means(lowMask, low)
      exact == Means(mask, name)
      comp == matchcomp(mask)
  IN /\ means => match(mask, mem)
     /\ exact => match_case(mask, mem)
     /\ match(mask, mem) => means \/ RunsOff(lowMask, low, Lower(behind))
     /\ match_case(mask, mem) => exact \/ RunsOff(mask, name, behind)
     /\ matchexec(name, comp) = means
     /\ Means(LowerMask(collapse(mask)), low) = means
     /\ Means(matchdecomp(comp.cmask), low) = means

\* A mask that overrides another (mmatch, match.c:53) matches every name the other
\* one matches: the ban, silence entry or G-line that is dropped as superfluous
\* (channel.c:250, s_user.c:3767, list.c:571) really was.
Overridden ==
  mask # other /\ mmatch(mask, other) =>
    \A s \in BoundedSeq(NameChars, MaxName) :
      Means(LowerMask(other), Lower(s)) => Means(LowerMask(mask), Lower(s))

\* The matchers agree with what a mask means (MaskMeaning) and what is dropped as
\* superfluous was (Overridden), on masks and names of the right characters.
MatchersAgree == MaskTypeOK /\ MaskMeaning /\ Overridden

=============================================================================
