-------------------------------- MODULE Rules --------------------------------
(****************************************************************************)
(* Connect rules (crule.c): the D and d lines of the configuration forbid   *)
(* a link while a Boolean expression over the network holds, such as        *)
(*     directcon(*.hub) || (!via(a.*, b.*) && directop())                   *)
(* crule_parse turns the text into a tree when the line is read, crule_eval *)
(* walks the tree whenever a link is about to be made.                      *)
(*                                                                          *)
(* A rule is a sequence of symbols: the single characters & and | (two of   *)
(* them make a token), the other punctuation, ":" for the end, "bad" for a  *)
(* character no token begins with, and words.  The tokeniser and the        *)
(* recursive descent are translated with their error returns and with the   *)
(* half-built trees they leave, and compared with the grammar that stands   *)
(* above crule_parse, read as a definition of what a sequence of tokens     *)
(* means.  A server is known by its name and by the link it is reached      *)
(* through; which names a mask matches is a constant (see Masks).           *)
(****************************************************************************)
EXTENDS SequencesExt, Integers

CONSTANTS
  Phrases,        \* pieces of text a rule is put together from
  MaxPhrases,     \* bound: pieces in a rule
  Named,          \* [mask -> names it matches]
  RuleWorlds,     \* networks: [servers |-> [name -> link], opers |-> BOOLEAN]
  Myself          \* the name of this server

VARIABLES rule, pieces
ruleVars == <<rule, pieces>>

Punctuation == {"&", "|", "!", "(", ")", ",", ":", "bad"}
IsWord(c) == c \notin Punctuation \union {"AND", "OR", "END"}

-----------------------------------------------------------------------------
(* The network, as the four functions of a rule see it.                     *)

crule_connected(w, args) == \E x \in DOMAIN w.servers \union {Myself} : x \in Named[args[1]]
crule_directcon(w, args) == \E x \in DOMAIN w.servers : w.servers[x] = x /\ x \in Named[args[1]]
\* Its loop also meets this server itself, which is behind no link; a second
\* argument that matches our own name is left out of the rules considered.
crule_via(w, args) ==
  \E x \in DOMAIN w.servers : x \in Named[args[2]] /\ w.servers[x] \in Named[args[1]]
crule_directop(w, args) == w.opers

\* crule_funclist: the functions and how many arguments each needs.
reqnumargs == [connected |-> 1, directcon |-> 1, via |-> 2, directop |-> 0]
Called(f, w, args) ==
  CASE f = "connected" -> crule_connected(w, args)
    [] f = "directcon" -> crule_directcon(w, args)
    [] f = "via"       -> crule_via(w, args)
    [] OTHER           -> crule_directop(w, args)

-----------------------------------------------------------------------------
(* crule_gettoken, from symbol i on: the token, the place behind it, and    *)
(* whether it is one.  A single & or | that no second one follows is        *)
(* swallowed by the token behind it.                                        *)

RECURSIVE GetToken(_, _, _)
GetToken(s, i, pending) ==
  IF i > Len(s) THEN [tok |-> "END", at |-> i, ok |-> TRUE]
  ELSE CASE s[i] \in {"&", "|"} /\ pending = "" -> GetToken(s, i + 1, s[i])
         [] s[i] \in {"&", "|"} /\ pending = s[i] ->
              [tok |-> IF s[i] = "&" THEN "AND" ELSE "OR", at |-> i + 1, ok |-> TRUE]
         [] s[i] \in {"&", "|"} \/ s[i] = "bad" -> [tok |-> "bad", at |-> i, ok |-> FALSE]
         [] s[i] = ":" -> [tok |-> "END", at |-> Len(s) + 1, ok |-> TRUE]
         [] OTHER -> [tok |-> s[i], at |-> i + 1, ok |-> TRUE]

crule_gettoken(s, p) == GetToken(s, p.at, "")

-----------------------------------------------------------------------------
(* The parser.  A result holds the error, the tree (Null: none; Unset: a    *)
(* pointer of a node not written yet) and the token it stopped at.          *)

Null == <<"null">>
Unset == <<"unset">>
Result(err, tree, p) == [err |-> err, tree |-> tree, tok |-> p.tok, at |-> p.at]
Failed(p, tree) == Result("UNKNWTOK", tree, p)

\* crule_parsearglist: words in a row are one argument, an empty one is none.
\* The lengths of words (CR_MAXARGLEN) are left out, and so are calls with more
\* than CR_MAXARGS = 3 arguments: argrootp->arg[] is written without asking for
\* its end (crule.c:680), and no function has more than two.
RECURSIVE ArgList(_, _, _, _)
ArgList(s, p, currarg, args) ==
  LET q == crule_gettoken(s, p)
      all == IF currarg = <<>> THEN args ELSE Append(args, currarg)
  IN CASE IsWord(p.tok) -> IF q.ok THEN ArgList(s, q, Append(currarg, p.tok), args)
                           ELSE [err |-> "UNKNWTOK", args |-> args, p |-> q]
       [] p.tok = ","   -> IF q.ok THEN ArgList(s, q, <<>>, all)
                           ELSE [err |-> "UNKNWTOK", args |-> all, p |-> q]
       [] OTHER         -> [err |-> "NOERR", args |-> all, p |-> p]

\* An argument of several words, which matches no server's name, is known by
\* its first one; the phrases of the runs have none.
\*
\* crule_parsefunction: p stands at the name of the function, q behind it, r
\* behind the bracket, and a is the list of arguments.
CallOf(f, args) == <<"call", f, [i \in DOMAIN args |-> args[i][1]]>>
Closed(f, a, z) ==
  CASE a.err # "NOERR" -> Result(a.err, CallOf(f, a.args), a.p)
    [] a.p.tok # ")" -> Result("EXPCTCLOSE", CallOf(f, a.args), a.p)
    [] Len(a.args) # reqnumargs[f] -> Result("ARGMISMAT", CallOf(f, a.args), a.p)
    [] ~z.ok -> Failed(z, CallOf(f, a.args))
    [] OTHER -> Result("NOERR", CallOf(f, a.args), z)
WithArgs(s, f, a) == Closed(f, a, crule_gettoken(s, a.p))
Opened(s, p, q, r) ==
  CASE ~q.ok -> Failed(q, Null)
    [] q.tok # "(" -> Result("EXPCTOPEN", Null, q)
    [] p.tok \notin DOMAIN reqnumargs -> Result("UNKNWFUNC", Null, q)
    [] ~r.ok -> Failed(r, Null)
    [] OTHER -> WithArgs(s, p.tok, ArgList(s, r, <<>>, <<>>))
ParseFunction(s, p) == Opened(s, p, crule_gettoken(s, p), crule_gettoken(s, crule_gettoken(s, p)))

RECURSIVE BinExpr(_, _, _, _)
RECURSIVE ParsePrimary(_, _, _)

\* crule_parseprimary; under: a ! has been read, so an operand must follow.
\* q is the token behind p, r what was read from there on.
Bracketed(s, r) ==
  CASE r.err # "NOERR" -> r
    [] r.tree = Null -> Result("EXPCTAND", Null, r)
    [] r.tok # ")" -> Result("EXPCTCLOSE", r.tree, r)
    [] OTHER -> LET z == crule_gettoken(s, r) IN Result(IF z.ok THEN "NOERR" ELSE "UNKNWTOK", r.tree, z)
Negated(r) == Result(r.err, <<"not", r.tree>>, r)
Primary(s, p, q, under) ==
  CASE p.tok = "(" /\ ~q.ok -> Failed(q, Null)
    [] p.tok = "(" /\ q.ok -> Bracketed(s, BinExpr("OR", s, q, Null))
    [] p.tok = "!" /\ ~q.ok -> Failed(q, <<"not", Null>>)
    [] p.tok = "!" /\ q.ok -> Negated(ParsePrimary(s, q, TRUE))
    [] IsWord(p.tok) -> ParseFunction(s, p)
    [] OTHER -> Result(IF under THEN "EXPCTPRIM" ELSE "NOERR", Null, p)
ParsePrimary(s, p, under) == Primary(s, p, crule_gettoken(s, p), under)

Filled(root, right) == <<root[1], root[2], right>>

\* Mutant: the operand read last is lost when another operator follows it.
NodeOf_Forgets(op, root, r) == <<op, IF root = Null THEN r.tree ELSE root[2], Unset>>

\* The node made when an operator follows the operand r.
NodeOf(op, root, r) == <<op, IF root = Null THEN r.tree ELSE Filled(root, r.tree), Unset>>

\* Mutant: one loop for both operators, which then bind alike.
Operand_OneLevel(op, s, root, r, q) ==
  CASE r.err = "NOERR" /\ r.tok \in {"AND", "OR"} /\ q.ok -> BinExpr(op, s, q, NodeOf(r.tok, root, r))
    [] r.err = "NOERR" /\ r.tok \in {"AND", "OR"} /\ ~q.ok -> Failed(q, NodeOf(r.tok, root, r))
    [] ~(r.err = "NOERR" /\ r.tok \in {"AND", "OR"}) /\ root = Null -> r
    [] ~(r.err = "NOERR" /\ r.tok \in {"AND", "OR"}) /\ root # Null /\ r.tree # Null ->
         Result(r.err, Filled(root, r.tree), r)
    [] OTHER -> Result("EXPCTPRIM", Filled(root, Null), r)

\* What follows the operand r: the operator of this level, or the end of the level.
Operand(op, s, root, r, q) ==
  CASE r.err = "NOERR" /\ r.tok = op /\ q.ok -> BinExpr(op, s, q, NodeOf(op, root, r))
    [] r.err = "NOERR" /\ r.tok = op /\ ~q.ok -> Failed(q, NodeOf(op, root, r))
    [] ~(r.err = "NOERR" /\ r.tok = op) /\ root = Null -> r
    [] ~(r.err = "NOERR" /\ r.tok = op) /\ root # Null /\ r.tree # Null -> Result(r.err, Filled(root, r.tree), r)
    [] OTHER -> Result(IF op = "OR" THEN "EXPCTAND" ELSE "EXPCTPRIM", Filled(root, Null), r)
NextOperand(op, s, root, r) == Operand(op, s, root, r, crule_gettoken(s, r))

\* crule_parseorexpr (op = "OR", of and-expressions) and crule_parseandexpr
\* (op = "AND", of primaries): one loop, root the tree built so far.
BinExpr(op, s, p, root) ==
  NextOperand(op, s, root, IF op = "OR" THEN BinExpr("AND", s, p, Null) ELSE ParsePrimary(s, p, FALSE))

Accepted(r) ==
  IF r.err = "NOERR" /\ r.tree # Null /\ r.tok = "END" THEN r.tree ELSE Null
ParseFrom(s, p) == IF p.ok THEN Accepted(BinExpr("OR", s, p, Null)) ELSE Null
crule_parse(s) == ParseFrom(s, GetToken(s, 1, ""))

\* A tree crule_eval can walk: no pointer it follows is a null pointer.
RECURSIVE Whole(_)
Whole(t) ==
  CASE t[1] = "call" -> TRUE
    [] t[1] = "not" -> Whole(t[2])
    [] t[1] \in {"OR", "AND"} -> Whole(t[2]) /\ Whole(t[3])
    [] OTHER -> FALSE

\* crule_eval, crule__andor, crule__not.
RECURSIVE crule_eval(_, _)
crule_eval(t, w) ==
  CASE t[1] = "call" -> Called(t[2], w, t[3])
    [] t[1] = "not" -> ~crule_eval(t[2], w)
    [] t[1] = "OR" -> crule_eval(t[2], w) \/ crule_eval(t[3], w)
    [] t[1] = "AND" -> crule_eval(t[2], w) /\ crule_eval(t[3], w)

-----------------------------------------------------------------------------
(* The grammar: the set of values a sequence of tokens has, empty when no   *)
(* derivation yields it.                                                    *)

RECURSIVE Tokens(_, _)
Tokens(s, i) ==
  LET p == GetToken(s, i, "")
  IN IF ~p.ok THEN <<"bad">> ELSE IF p.tok = "END" THEN <<>>
     ELSE <<p.tok>> \o Tokens(s, p.at)

ArgsOf(t) == [i \in 1..(Len(t) + 1) \div 2 |-> t[2 * i - 1]]
IsArgs(t) == t = <<>> \/ /\ Len(t) % 2 = 1
                         /\ \A i \in DOMAIN t : IF i % 2 = 1 THEN IsWord(t[i]) ELSE t[i] = ","

CallValues(t, w) ==
  IF /\ Len(t) >= 3 /\ t[1] \in DOMAIN reqnumargs /\ t[2] = "(" /\ t[Len(t)] = ")"
     /\ IsArgs(SubSeq(t, 3, Len(t) - 1))
     /\ Len(ArgsOf(SubSeq(t, 3, Len(t) - 1))) = reqnumargs[t[1]]
  THEN {Called(t[1], w, ArgsOf(SubSeq(t, 3, Len(t) - 1)))} ELSE {}

RECURSIVE OrValues(_, _)
RECURSIVE PrimaryValues(_, _)
PrimaryValues(t, w) ==
  CASE t = <<>> -> {}
    [] t[1] = "!" -> {~v : v \in PrimaryValues(Tail(t), w)}
    [] t[1] = "(" /\ t[Len(t)] = ")" -> OrValues(SubSeq(t, 2, Len(t) - 1), w)
    [] OTHER -> CallValues(t, w)

Splits(t, op) == {<<SubSeq(t, 1, k - 1), SubSeq(t, k + 1, Len(t))>> : k \in {i \in DOMAIN t : t[i] = op}}
RECURSIVE AndValues(_, _)
AndValues(t, w) ==
  PrimaryValues(t, w)
    \union UNION {{x /\ y : x \in PrimaryValues(h[1], w), y \in AndValues(h[2], w)} : h \in Splits(t, "AND")}
OrValues(t, w) ==
  AndValues(t, w)
    \union UNION {{x \/ y : x \in AndValues(h[1], w), y \in OrValues(h[2], w)} : h \in Splits(t, "OR")}

-----------------------------------------------------------------------------

RuleInit == rule = <<>> /\ pieces = 0

\* initconf hands crule_parse whatever the D line says.
TypeRule(f) ==
  /\ pieces < MaxPhrases
  /\ rule' = rule \o f
  /\ pieces' = pieces + 1

RuleNext == \E f \in Phrases : TypeRule(f)
RuleSpec == RuleInit /\ [][RuleNext]_ruleVars

RuleTypeOK == pieces \in 0..MaxPhrases /\ \A i \in DOMAIN rule : IsWord(rule[i]) \/ rule[i] \in Punctuation

SameReading(tree, values, w) ==
  /\ values # {} => tree # Null /\ Whole(tree) /\ values = {crule_eval(tree, w)}
  /\ Whole(tree) => values # {}

\* A rule of the grammar above crule_parse (crule.c:371) is accepted and forbids
\* the link exactly when the grammar's reading of it holds, whatever the network;
\* a rule accepted with a tree that crule_eval can walk is one of the grammar.
RuleMeaning ==
  /\ RuleTypeOK
  /\ \A w \in RuleWorlds : SameReading(crule_parse(rule), OrValues(Tokens(rule, 1), w), w)

=============================================================================
