------------------------------- MODULE MCMerge -------------------------------
EXTENDS Merge, TLC

\* Configurations as values, laid out on the heap in preorder.
D(name, args)             == [name |-> name, args |-> args]
B(name, args, dirs, subs) == [name |-> name, args |-> args, dirs |-> dirs, subs |-> subs]

RECURSIVE Size(_), SizeAll(_), Place(_, _), PlaceAll(_, _)
SizeAll(ts)     == IF ts = <<>> THEN 0 ELSE Size(Head(ts)) + SizeAll(Tail(ts))
Size(t)         == 1 + Len(t.dirs) + SizeAll(t.subs)
At(ts, a, k)    == a + SizeAll(SubSeq(ts, 1, k - 1))
PlaceAll(ts, a) == IF ts = <<>> THEN <<>>
                   ELSE Place(Head(ts), a) @@ PlaceAll(Tail(ts), a + Size(Head(ts)))
Place(t, a) ==
  LET below == a + 1 + Len(t.dirs) IN
    (a :> [Block(t.name, t.args) EXCEPT
             !.dirs = [k \in 1..Len(t.dirs) |-> a + k],
             !.subs = [k \in 1..Len(t.subs) |-> At(t.subs, below, k)]])
    @@ [x \in (a + 1)..(a + Len(t.dirs)) |-> Directive(t.dirs[x - a].name, t.dirs[x - a].args)]
    @@ PlaceAll(t.subs, below)

Forest(ts) == [heap  |-> PlaceAll(ts, 1) @@ [a \in Addr |-> NoObject],
               roots |-> [k \in 1..Len(ts) |-> At(ts, 1, k)]]

Lists(S, n) == UNION {[1..k -> S] : k \in 0..n}
Main(dirs, subs) == B("main", <<>>, dirs, subs)

x1 == D("x", <<"1">>)
x2 == D("x", <<"2">>)
y  == D("y", <<>>)
xn == D("x", <<Null>>)

\* Directives only, with doubles, conflicts and an empty argument.
Flat == {<<Main(a, <<>>), Main(b, <<>>)>> : a, b \in Lists({x1, x2, y, xn}, 2)}

\* Subblocks that match or not, conflict inside or not, and nest.
Blocks == {B("http", <<>>, <<x1>>, <<>>), B("http", <<>>, <<x2>>, <<>>),
           B("http", <<"a">>, <<x2>>, <<>>), B("http", <<Null>>, <<>>, <<>>),
           B("http", <<"a">>, <<>>, <<B("in", <<>>, <<y>>, <<>>)>>)}
Nested == {<<Main(<<>>, a), Main(<<>>, b)>> : a, b \in Lists(Blocks, 2)}

\* Three inputs.
Small == {Main(a, b) : a \in {<<>>, <<x1>>, <<x2>>}, b \in Lists({B("http", <<>>, <<x1>>, <<>>),
                                                           B("http", <<>>, <<y>>, <<>>)}, 1)}
Three == {<<a, b, c>> : a, b, c \in Small}

MCAddr    == 1..24
MCForests == {Forest(ts) : ts \in Flat \cup Nested \cup Three}
=============================================================================
