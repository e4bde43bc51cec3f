---------------------------- MODULE MCAlgorithms ----------------------------
(***************************************************************************)
(* The algorithms of the project on every input of a bounded set.  A run   *)
(* chooses an algorithm, then one input for it; the labels of a switch, the *)
(* calls on a tree, and an expression around another come one at a time.   *)
(***************************************************************************)
EXTENDS Switch, Folding, Sorting, Avl, Macros, Conditionals

CONSTANTS Tasks,       \* the algorithms of the run
          Known,       \* whether the inputs known to be mishandled are tried
          Cases,       \* bound: case labels of a switch, before their conversion
          MaxSorted,   \* bound: length of the arrays tried with every content
          MaxTyped,    \* bound: tokens of a call of a macro
          MaxIf,       \* bound: tokens of an #if
          MaxFlow,     \* bound: statements of a function
          MaxMembers,  \* bound: members of a structure
          MaxInit,     \* bound: tokens of an initializer
          MaxLevel,    \* bound: blocks inside one another
          MaxDeclared  \* bound: declarations and uses of an identifier

VARIABLES task,    \* the algorithm
          input    \* its input so far
vars == <<task, input>>

Init == task = "none" /\ input = <<>>
Starts(t) == task = "none" /\ t \in Tasks /\ task' = t
Goes(t) == task = t /\ task' = t

-----------------------------------------------------------------------------
(* A switch gets its labels in any order. *)
StartSwitch == /\ Starts("switch")
               /\ \E ty \in {"I", "U"} : input' = [ty |-> ty, cases |-> {}, values |-> <<>>]
Label == /\ Goes("switch")
         /\ \E n \in Cases :
              LET c == Wrap(input.ty, n) IN
              /\ c \notin input.cases
              /\ input' = [input EXCEPT !.cases = @ \cup {c},
                                        !.values = caselabel(@, casevalue(c, input.ty))]

(* An expression of two operators at most: the ones that look into their      *)
(* operands are tried around each other one.                                 *)
Atoms(ty, ns) == {cnsttree(ty, Wrap(ty, n)) : n \in ns}
                   \cup {tree("VAR", ty, <<>>), tree("CALL", ty, <<>>)}
Leaf(ty) == Atoms(ty, {Least(ty), -1, 0, 1, 2})
Binary == {"ADD", "SUB", "MUL", "DIV", "MOD", "LSH", "RSH", "BAND", "BOR", "BXOR"}
ResultType(op, ty) == IF op \in Binary THEN ty ELSE "I"
RightType(op, ty) == IF op \in {"LSH", "RSH"} THEN "I" ELSE ty
Types == {"I", "U", "C", "B"}
Operation ==
    /\ Starts("fold")
    /\ \E ty \in {"I", "U"}, op \in Binary \cup Relations \cup {"AND", "OR"} :
         \E l \in Leaf(ty), r \in Leaf(RightType(op, ty)) :
           input' = tree(op, ResultType(op, ty), <<l, r>>)
Conversion == /\ Starts("fold")
              /\ \E cv \in {"CV", "CAST"}, ty \in Types, from \in Types :
                   \E l \in Leaf(from) : input' = tree(cv, ty, <<l>>)
Simple(t) == t.kids # <<>> /\ \A i \in 1 .. Len(t.kids) : t.kids[i].kids = <<>>
Around == /\ Goes("fold") /\ Simple(input) /\ Wide(input.ty)
          /\ \E op \in {"MUL", "BAND", "OR", "LT"} :
               \E r \in {cnsttree(input.ty, 0), cnsttree(input.ty, 2), tree("CALL", input.ty, <<>>)} :
                 \E kids \in {<<input, r>>, <<r, input>>} :
                   input' = tree(op, ResultType(op, input.ty), kids)
Applied == /\ Goes("fold") /\ Simple(input) /\ Wide(input.ty)
           /\ \/ input' = tree("NOT", "I", <<input>>)
              \/ input' = tree("BCOM", input.ty, <<input>>)
              \/ input.ty = "I" /\ input' = tree("NEG", "I", <<input>>)
              \/ \E ty \in Types, cv \in {"CV", "CAST"} : input' = tree(cv, ty, <<input>>)
Values == {Least("I"), -1, 2, Greatest("I")}

(* Every array of a few keys, and longer ones that take the medians. *)
Marked(s) == [i \in 1 .. Len(s) |-> <<s[i], i>>]
Array == /\ Starts("sort")
         /\ \/ \E n \in 1 .. MaxSorted : \E s \in [1 .. n -> 0 .. 2] : input' = Marked(s)
            \/ \E s \in [1 .. MaxSorted + 2 -> 0 .. 1] : input' = Marked(s)
            \/ \E n \in {8, 10, 16, 41, 43}, p \in 1 .. 7, m \in 2 .. 9, r \in 0 .. 2 :
                 input' = Marked([i \in 1 .. n |-> (i * p + r * i * i) % m])

(* Calls on a tree: used is what it should hold, right whether the last call  *)
(* returned what a dictionary returns, and kept within its stack.            *)
StartTree == Starts("avl") /\ input' = [tree |-> Empty, used |-> {}, right |-> TRUE]
Same(key) == {m \in input.used : Key[m] = key}
Called(r, used, key) ==
    [tree |-> Clean(r.tree), used |-> used,
     right |-> /\ IF Same(key) = {} THEN r.ret = NULL ELSE r.ret \in Same(key)
               /\ PathFits(r.stack, Cardinality(input.used))]
Add == /\ Goes("avl")
       /\ \E n \in Nodes \ input.used :
            input' = Called(avl_add(input.tree, n),
                            IF Same(Key[n]) = {} THEN input.used \cup {n} ELSE input.used, Key[n])
Del == /\ Goes("avl")
       /\ \E key \in {Key[n] : n \in Nodes} :
            input' = Called(avl_del(input.tree, key), input.used \ Same(key), key)

(* The macros id, o, f and g, and a line that uses them. *)
Macro(ap, vp, va) == [ap |-> ap, vp |-> Row(vp), va |-> va]
Id == Macro(<<"p">>, <<"p">>, FALSE)
ObjectLike == {Macro(NotCalled, vp, FALSE) :
                 vp \in {<<"o", "a">>, <<"g">>, <<"f">>, <<"f", "(", "o", ")">>}}
OneArgument == {Macro(<<"p">>, vp, FALSE) :
                  vp \in {<<"p", "f", "p">>, <<"o", "(", "p", ")">>, <<"g", "(", "p", ",", "o", ")">>,
                          <<"#", "p">>, <<"id", "(", "p", ")">>, <<"p", "(", "p", ")">>}}
TwoArguments == {Macro(<<"p", "q">>, vp, FALSE) :
                   vp \in {<<"p", "(", "q", ")">>, <<"f", "(", "q", ")", "o">>, <<"p", "##", "q">>}}
                  \cup {Macro(<<"p", "q">>, <<"f", "(", "__VA_ARGS__", ")">>, TRUE)}
Lines == {<<"o">>, <<"f", "(", "o", ")">>, <<"f", "(", "f", ")", "(", "a", ")">>,
          <<"f", "(", "g", "(", "a", ",", "o", ")", ")">>, <<"g", "(", "o", ",", "f", "(", "a", ")", ")">>,
          <<"g", "(", "f", ",", "a", ")", "(", "o", ")">>, <<"o", "(", "a", ")">>,
          <<"f", "(", "id", "(", "f", "(", "o", ")", ")", ")">>, <<"f", "(", "a", ",", "b", ")">>,
          <<"g", "(", "f", ",", "o", ",", "a", ")">>, <<"id", "(", "o", ")", "(", "a", ",", "f", ")">>,
          <<"f", "(", "o">>, <<"g", "(", "(", "o", ",", "a", ")", ",", "g", ")">>}
Line == /\ Starts("macro")
        /\ \E o \in ObjectLike, f \in OneArgument, g \in TwoArguments, line \in Lines :
             input' = [defs |-> [id |-> Id, o |-> o, f |-> f, g |-> g], row |-> Row(line)]

(* A call, a token at a time. *)
Closed(row) == Len(row) > 1 /\ Opened(row, 1, Len(row)) = 0
StartCall == Starts("call") /\ input' = Row(<<"(">>)
Typed == /\ Goes("call") /\ ~Closed(input) /\ Len(input) < MaxTyped
         /\ \E s \in {"a", ",", "(", ")"} : input' = Append(input, Token(s))

(* The lines of a file and of the ones it includes, up to the first mistake:  *)
(* c is what cpp.c does with them and g what they mean.  #elif is not tried   *)
(* in a file where it has no #if when the file that includes it has one.     *)
StartFile == Starts("file") /\ input' = [c |-> Start, g |-> Alone]
Reading == Goes("file") /\ ~input.c.error /\ ~input.c.fatal /\ ~input.g.wrong
Directive == /\ Reading
             /\ \E d \in {"if", "elif", "else", "endif"}, v \in BOOLEAN :
                  /\ d = "elif" => Within(input.g) \/ input.g.open = <<>>
                  /\ input' = [c |-> control(input.c, d, v), g |-> Meaning(input.g, d, v)]
Include == /\ Reading /\ input.c.skipping = 0 /\ input.g.file < 3
           /\ input' = [c |-> doinclude(input.c), g |-> IncludeMeans(input.g)]
End == /\ Reading
       /\ input' = [c |-> EndOfFile(input.c), g |-> EndMeans(input.g)]

(* An expression, tested by an if: a simple one, then one more operator around *)
(* it and a simple one, then one more test, sum or assignment.               *)
C == INSTANCE Dags WITH Globals <- {1, 2, 3}, Locals <- {4}
ASSUME VariablesAssumption == C!TreesAssumption
Var(n) == C!Expr("var", <<>>, n)
Constant == C!Expr("const", <<>>, 2)
Behind == C!Expr("deref", <<Var(3)>>, 0)
With(op, kids) == C!Expr(op, kids, 0)
Memories == {[v \in 1 .. 4 |-> CASE v = 1 -> a [] v = 2 -> 2 [] v = 3 -> 1 [] v = 4 -> r] :
               a \in {0, 5}, r \in {0, 7}}
Changes == {With("post", <<v>>) : v \in {Var(1), Var(4), Behind}}
             \cup {With("asgn", <<v, w>>) : v \in {Var(2), Var(4), Behind}, w \in {Var(1), Behind, Constant}}
             \cup {With("incr", <<v, Constant>>) : v \in {Var(1), Behind}}
             \cup {With("call", <<Var(4)>>)}
SimpleExprs == {Var(1), Var(4), Behind} \cup Changes
StartExpr == Starts("dag") /\ \E e \in SimpleExprs : input' = [e |-> e, ops |-> 0]
Widened ==
    /\ Goes("dag") /\ input.ops = 0
    /\ \E e \in {With(op, <<input.e, s>>) : op \in {"add", "comma", "and", "or"}, s \in SimpleExprs}
              \cup {With("cond", <<Var(4), input.e, s>>) : s \in {Var(1), Behind} \cup Changes}
              \cup {With("cond", <<input.e, Var(1), Behind>>), With("not", <<input.e>>)} :
         input' = [e |-> e, ops |-> 1]
Tested ==
    /\ Goes("dag") /\ input.ops = 1
    /\ \E e \in {With("add", <<Behind, input.e>>), With("and", <<Var(4), input.e>>),
                 With("asgn", <<Var(2), input.e>>), With("comma", <<input.e, Behind>>),
                 With("cond", <<Var(4), input.e, Var(1)>>)} :
         input' = [e |-> e, ops |-> IF Known THEN 1 ELSE 2]

(* The expression of an #if, a token at a time, until a mistake is told. *)
V == INSTANCE Evaluator
Num(n) == V!Number(n, "SGN")
Signs(S) == {V!Sign(s) : s \in S}
Alphabets == {{Num(1), Num(2)} \cup Signs({"MINUS", "STAR", "LP", "RP"}),
              {Num(0), Num(1)} \cup Signs({"QUEST", "COLON", "LOR", "LP", "RP"}),
              {Num(1), V!Number(1, "UNS")} \cup Signs({"MINUS", "LT", "NOT"}),
              {Num(0), Num(1)} \cup Signs({"SLASH", "LAND", "LOR"}),
              {Num(1), Num(2)} \cup Signs({"LSH", "EQ", "AND"})}
StartIf == Starts("if") /\ \E a \in Alphabets : input' = [tokens |-> a, row |-> <<>>]
Scanned == /\ Goes("if") /\ Len(input.row) < MaxIf /\ ~V!Scanned(input.row).told
           /\ \E t \in input.tokens : input' = [input EXCEPT !.row = Append(@, t)]

(* A function, a statement at a time, up to the first mistake.  The body of a  *)
(* switch is a block, but for the inputs known to be mishandled.             *)
F == INSTANCE Statements
Stmt(kind, x) == <<kind, x>>
Stmts(kinds) == {Stmt(k, "none") : k \in kinds}
Functions ==
    LET Of(n, tokens) == [n |-> n, tokens |-> tokens] IN
    IF Known THEN {Of(MaxFlow, Stmts({"switch", "default", "asgn", "return"})
                                 \cup {Stmt("case", 1), Stmt("if", "?")})}
    ELSE {Of(MaxFlow - 2, Stmts({"{", "asgn"}) \cup {Stmt("if", "?")}
                            \cup {Stmt(k, x) : k \in {"goto", "label"}, x \in {"a", "b"}}),
          Of(MaxFlow - 2, Stmts({"{", "break", "continue", "asgn"})
                            \cup {Stmt("while", "?"), Stmt("while", "1"), Stmt("if", "?")}),
          Of(MaxFlow - 2, Stmts({"{", "return", "empty", "asgn"})
                            \cup {Stmt("if", "?"), Stmt("while", "1"), Stmt("do", "?")}),
          Of(MaxFlow - 2, Stmts({"for", "break", "continue", "call"})
                            \cup {Stmt(k, x) : k \in {"do", "if"}, x \in {"?", "0"}}
                            \cup {Stmt("for", "?"), Stmt("for", "first"), Stmt("if", "1")}),
          Of(MaxFlow, Stmts({"{", "switch", "break", "continue"})
                        \cup {Stmt("case", 1), Stmt("while", "?")}),
          Of(MaxFlow, Stmts({"{", "switch", "default", "break", "asgn"})
                        \cup {Stmt("case", 1), Stmt("case", 2)})}
StartFunction ==
    /\ Starts("flow")
    /\ \E f \in Functions : input' = [n |-> f.n, tokens |-> f.tokens, u |-> F!Function]
Parsing == Goes("flow") /\ ~input.u.over /\ ~input.u.c.error /\ ~F!Wrong(input.u.p)
Becomes(u) == input' = [input EXCEPT !.u = u]
Statement ==
    /\ Parsing /\ F!Expected(input.u) /\ Len(input.u.p) < input.n
    /\ \E t \in input.tokens :
         /\ F!Top(input.u).kind = "switch" /\ t[1] # "{" => Known
         /\ Becomes(F!statement(input.u, t[1], t[2]))
Brace == Parsing /\ F!Expected(input.u) /\ F!Closable(input.u) /\ Becomes(F!EndBlock(input.u))
ElsePart == Parsing /\ F!CanElse(input.u) /\ Becomes(F!Else(input.u))
NoElsePart == Parsing /\ F!Top(input.u).part = "over" /\ Becomes(F!NoElse(input.u))
LastBrace == Parsing /\ Len(input.u.open) = 1 /\ Becomes(F!EndFunction(input.u))

(* A structure or a union, a member at a time. *)
I == INSTANCE Initializers
Member(ty) == I!newfield(ty)
BitField(bits) == I!bitfield(bits, TRUE)
Unnamed(bits) == I!bitfield(bits, FALSE)
StartFields == Starts("fields") /\ \E k \in {"struct", "union"} : input' = [k |-> k, members |-> <<>>]
Declared ==
    /\ Goes("fields") /\ Len(input.members) < MaxMembers
    /\ \E m \in {Member(ty) : ty \in {I!char, I!int, I!long, I!float}}
                \cup {BitField(n) : n \in {3, 13, 16}} \cup {Unnamed(0), Unnamed(5)} :
         input' = [input EXCEPT !.members = Append(@, m)]

(* An initializer of an object of some type, a token at a time; the n-th token *)
(* has the value n, unless it is a string.                                   *)
Struct(ms) == I!fields("struct", ms)
Structs(n, ms) == I!array(Struct(ms), n)
CharMember == Member(I!char)
IntMember == Member(I!int)
Initials ==      \* the types, and whether a string may come
    {<<I!array(I!array(I!int, 2), 2), FALSE>>, <<I!array(I!array(I!int, 2), 0), FALSE>>,
     <<I!array(I!array(I!char, 3), 2), TRUE>>, <<I!array(I!char, 0), TRUE>>,
     <<Struct(<<Member(I!array(I!char, 2)), Member(Struct(<<CharMember, IntMember>>)), CharMember>>), TRUE>>,
     <<Structs(2, <<CharMember, IntMember, CharMember>>), FALSE>>,
     <<I!array(I!fields("union", <<CharMember, IntMember>>), 2), FALSE>>,
     <<Struct(<<CharMember, BitField(3), BitField(9), Unnamed(16), BitField(5), CharMember>>), FALSE>>,
     <<Structs(2, <<BitField(3), BitField(12), CharMember>>), FALSE>>}
StartInit ==
    /\ Starts("init")
    /\ \E x \in Initials : \E first \in {I!Token("{"), I!Num(1)} \cup (IF x[2] THEN {I!Str(<<7, 8>>)} ELSE {}) :
         input' = [ty |-> x[1], strings |-> x[2], ts |-> <<first>>]
Braces == I!Depth(input.ts, Len(input.ts))
Expected ==
    LET last == input.ts[Len(input.ts)].t IN
    (IF last \in {"{", ","}
     THEN {I!Num(Len(input.ts))}
            \cup (IF Braces < 3 THEN {I!Token("{")} ELSE {})
            \cup (IF input.strings THEN {I!Str([i \in 1 .. n |-> 50 + i]) : n \in {1, 3, 4}} ELSE {})
     ELSE {I!Token(",")})
      \cup (IF last = "{" THEN {} ELSE {I!Token("}")})
TypedInit ==
    /\ Goes("init") /\ Braces > 0 /\ Len(input.ts) < MaxInit
    /\ \E x \in Expected : input' = [input EXCEPT !.ts = Append(@, x)]

(* A unit that declares and uses an identifier, up to the first mistake: u is *)
(* what the compiler does, f what the language says.  A parameter has the     *)
(* name of its function only where no declaration of that function is known,  *)
(* and never that of a type of the outermost block.                         *)
S == INSTANCE Scopes
StartUnit == Starts("unit") /\ input' = [u |-> S!Unit, f |-> S!File, uses |-> {}, n |-> 0, over |-> FALSE]
Compiling == Goes("unit") /\ ~input.over /\ ~input.u.error /\ ~input.f.wrong /\ ~input.f.undefined
Steps(u, f) == /\ input.n < MaxDeclared
               /\ input' = [input EXCEPT !.u = u, !.f = f, !.n = @ + 1]
Outside == Compiling /\ input.u.level = S!Global
Inside == Compiling /\ input.u.level > S!Global
SomeTypes == {"fun", "int", "open", "sized"}
Classes == {"AUTO", "EXTERN", "STATIC"}
DeclareGlobal ==
    /\ Outside
    /\ \E c \in Classes, ty \in SomeTypes, init \in BOOLEAN :
         Steps(S!dclglobal(input.u, c, ty, init), S!GlobalMeans(input.f, c, ty, init))
DeclareLocal ==
    /\ Inside
    /\ \E c \in Classes, ty \in SomeTypes, init \in BOOLEAN :
         Steps(S!dcllocal(input.u, c, ty, init), S!LocalMeans(input.f, c, ty, init))
DeclareType ==
    /\ Compiling
    /\ input.u.level = S!Local => input.u.identifiers[S!Param] = <<>>
    /\ Steps(S!Typedef(input.u), S!TypedefMeans(input.f))
Function ==
    /\ Outside
    /\ \E c \in Classes, own, param \in BOOLEAN :
         /\ own /\ param => Known \/ input.u.identifiers[S!Global] = <<>>
         /\ Steps(S!funcdefn(input.u, c, own, param), S!FunctionMeans(input.f, c, own, param))
Block == /\ Inside /\ input.u.level < MaxLevel
         /\ Steps(S!compound(input.u), S!BlockMeans(input.f))
EndBlock == /\ Inside
            /\ input' = [input EXCEPT !.u = S!EndOfBlock(input.u), !.f = S!EndMeans(input.f)]
UseIt == /\ Inside
         /\ \E called \in BOOLEAN :
              LET f == S!UseMeans(input.f, called)
                  u == S!idtree(input.u, called)
              IN  /\ input.n < MaxDeclared
                  /\ input' = [input EXCEPT !.u = u, !.f = f, !.n = @ + 1,
                                  !.uses = @ \cup {<<S!Target(u), S!Visible(f).entity>>}]
EndUnit == /\ Outside
           /\ input' = [input EXCEPT !.u = S!finalize(input.u), !.over = TRUE,
                           !.f.wrong = S!UsedUndefined(input.f, input.uses)]

Next == \/ StartUnit \/ DeclareGlobal \/ DeclareLocal \/ DeclareType \/ Function \/ Block
        \/ EndBlock \/ UseIt \/ EndUnit
        \/ StartFunction \/ Statement \/ Brace \/ ElsePart \/ NoElsePart \/ LastBrace
        \/ StartFields \/ Declared \/ StartInit \/ TypedInit
        \/ StartIf \/ Scanned
        \/ StartExpr \/ Widened \/ Tested
        \/ Line \/ StartCall \/ Typed
        \/ StartFile \/ Directive \/ Include \/ End
        \/ StartSwitch \/ Label
        \/ Operation \/ Conversion \/ Around \/ Applied
        \/ Array
        \/ StartTree \/ Add \/ Del
Spec == Init /\ [][Next]_vars

-----------------------------------------------------------------------------
(* Every value of a switch reaches its case (stmt.c, swcode). *)
SwitchDispatches == task = "switch" => EachToItsCase(input.values, input.cases, input.ty)
(* Folding keeps the value of an expression, and its calls (simp.c). *)
FoldingKeeps == task = "fold" => SameValue(input, Values)
(* qsort sorts, and bsearch finds (qsort.c, bsearch.c). *)
SortingSorts == task = "sort" => SortedThenFound(input)
(* An AVL tree is a dictionary, and balanced: no path outgrows the stack      *)
(* (_avladd.c, _avldel.c, _avlbal.s).                                        *)
TreeHolds ==
    task = "avl" => HoldsExactly(input.tree, input.used) /\ input.right /\ Balanced(input.tree)
(* The expansion of a line ends, unless macros are nested deeper than a       *)
(* hideset can tell, no macro is replaced in its own replacement, and an      *)
(* argument is expanded as it is alone (macro.c, hideset.c).                  *)
ExpansionsEnd == task = "macro" => EndsAndStandsAlone(input.defs, "id", input.row)
(* A call is cut into its arguments (macro.c, gatherargs). *)
ArgumentsGathered ==
    task = "call" /\ Closed(input) => \A dots \in 0 .. 2 : ArgumentsHold(input, dots)
(* The text between two lines is kept exactly if all the groups around it are *)
(* the ones to keep, and a line out of place is reported (cpp.c, control).   *)
GroupsKept ==
    task = "file" /\ ~input.c.fatal =>
      /\ input.c.error <=> input.g.wrong
      /\ ~input.c.error => (input.c.skipping = 0 <=> Kept(input.g))

(* The code of an expression does what the expression means, whatever values  *)
(* share a node, a temporary or a variable (dag.c).                          *)
CodeAgrees ==
    task = "dag" /\ C!Determinate(input.e) /\ (Known \/ ~C!Nested(input.e, FALSE, FALSE)) =>
      C!Agrees(input.e, Memories)

(* #if tests what its expression is worth, or reports a mistake (eval.c). *)
ConditionsEvaluate ==
    task = "if" /\ (Known \/ ~V!Chained(input.row)) => V!Evaluates(input.row)

(* The code of a function has the effects and asks the tests of its source in *)
(* their order, wherever its jumps and labels have been merged or dropped,   *)
(* and a statement out of place is told (stmt.c).                            *)
FlowKept ==
    task = "flow" =>
      LET u == input.u IN
      /\ u.c.error <=> F!Wrong(u.p) \/ (u.over /\ F!Undefined(u.p))
      /\ u.over /\ ~u.c.error => F!SameFlow(u) /\ F!LabelsStand(u.c)

(* The members of a structure are apart, aligned and packed, and a bit-field  *)
(* keeps what was assigned to it while the others keep theirs (decl.c, fields; *)
(* enode.c, asgntree; dag.c).                                                *)
FieldsKept ==
    task = "fields" =>
      /\ I!LaidOut(input.k, input.members)
      /\ I!Assigns(I!fields(input.k, input.members), {0, 21845, 43690, 65535}, {-1, 0, 1, 5, 7, 9}, Known)

(* The bytes of an object are those that its initializer says, or a mistake is *)
(* told (init.c).                                                           *)
InitializersFill ==
    task = "init" /\ Braces = 0 => I!Initialized(input.ts, input.ty, Known)

(* Every instance of an identifier denotes what its linkage and its scope say, *)
(* and a unit that violates a constraint is told, no other (sym.c, decl.c).   *)
NamesLinked ==
    task = "unit" =>
      /\ input.f.wrong => input.u.error
      /\ ~input.f.undefined /\ ~input.f.wrong =>
           /\ ~input.u.error
           /\ input.over => S!Denotes(input.u, input.f, input.uses)

MCNodes == 1 .. 8
MCKey == [n \in MCNodes |-> IF n = 8 THEN 2 ELSE n]
=============================================================================
