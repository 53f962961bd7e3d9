------------------------------ MODULE TreeProofs ------------------------------
(***************************************************************************)
(* Ownership on the heap of configfile.c, for any number of addresses: what *)
(* allocating an object, listing it in another and freeing it make of the   *)
(* rule that each live object is listed once or held by someone, and never  *)
(* both.  The theorems about the parser and the merge use these lemmas.     *)
(***************************************************************************)
EXTENDS ConfigTree, FiniteSetTheorems, WellFoundedInduction, TLAPS

LiveOf(h) == {a \in Addr : h[a].kind # "none"}
Kin(o)    == Elements(o.dirs) \cup Elements(o.subs)
Apart(s)  == \A j, k \in 1..Len(s) : s[j] = s[k] => j = k

\* An object of configfile.c whose lists hold addresses of A.
Object(o, A) == /\ o = [kind |-> o.kind, name |-> o.name, args |-> o.args,
                        dirs |-> o.dirs, subs |-> o.subs]
                /\ o.dirs \in Seq(A) /\ o.subs \in Seq(A)

\* It lists nothing twice.
Tidy(o) == /\ Apart(o.dirs) /\ Apart(o.subs)
           /\ Elements(o.dirs) \cap Elements(o.subs) = {}

\* Every live object is held, as the members of W are, or listed, in one place
\* only, and nothing refers to an object that is gone.
Owned(h, W) ==
  /\ h = [a \in Addr |-> h[a]]
  /\ \A a \in LiveOf(h) : Object(h[a], LiveOf(h)) /\ Tidy(h[a])
  /\ \A a, b \in LiveOf(h) : a # b => Kin(h[a]) \cap Kin(h[b]) = {}
  /\ W \subseteq LiveOf(h)
  /\ \A a \in LiveOf(h) : Kin(h[a]) \cap W = {}
  /\ \A a \in LiveOf(h) : a \in W \/ \E b \in LiveOf(h) : a \in Kin(h[b])

LEMMA AppendFacts ==
  ASSUME NEW S, NEW s \in Seq(S), NEW x
  PROVE  /\ Elements(Append(s, x)) = Elements(s) \cup {x}
         /\ Apart(s) /\ x \notin Elements(s) => Apart(Append(s, x))
<1>1. /\ Len(Append(s, x)) = Len(s) + 1 /\ Len(s) \in Nat
      /\ \A k \in 1..Len(s) : Append(s, x)[k] = s[k]
      /\ Append(s, x)[Len(s) + 1] = x
  OBVIOUS
<1> DEFINE t == Append(s, x)
<1> HIDE DEF t
<1>2. Elements(t) = Elements(s) \cup {x}
  <2>1. 1..Len(t) = (1..Len(s)) \cup {Len(s) + 1}
    BY <1>1 DEF t
  <2>2. (\A k \in 1..Len(s) : t[k] = s[k]) /\ t[Len(s) + 1] = x
    BY <1>1 DEF t
  <2> QED BY <2>1, <2>2 DEF Elements
<1>3. ASSUME Apart(s), x \notin Elements(s), NEW j \in 1..Len(t), NEW k \in 1..Len(t),
             t[j] = t[k]
      PROVE  j = k
  <2>1. /\ j \in 1..Len(s) \/ j = Len(s) + 1
        /\ k \in 1..Len(s) \/ k = Len(s) + 1
    BY <1>1 DEF t
  <2>2. (\A i \in 1..Len(s) : t[i] = s[i] /\ s[i] # x) /\ t[Len(s) + 1] = x
    BY <1>1, <1>3 DEF t, Elements
  <2> QED BY <1>3, <2>1, <2>2 DEF Apart
<1> QED BY <1>2, <1>3 DEF t, Apart

\* What a live object lists is live.
LEMMA KinLive ==
  ASSUME NEW h, NEW W, Owned(h, W), NEW x \in LiveOf(h)
  PROVE  Kin(h[x]) \subseteq LiveOf(h)
<1>1. \A S : \A s \in Seq(S) : Elements(s) \subseteq S
  BY DEF Elements
<1>2. h[x].dirs \in Seq(LiveOf(h)) /\ h[x].subs \in Seq(LiveOf(h))
  BY DEF Owned, Object
<1> QED BY <1>1, <1>2 DEF Kin

\* A live object that lists nothing is put where there was none; who made it
\* holds it.
LEMMA OwnedNew ==
  ASSUME NEW h, NEW W, Owned(h, W), NEW a \in Addr \ LiveOf(h), NEW o,
         o = [kind |-> o.kind, name |-> o.name, args |-> o.args,
              dirs |-> o.dirs, subs |-> o.subs],
         o.kind # "none", o.dirs = <<>>, o.subs = <<>>
  PROVE  /\ Owned([h EXCEPT ![a] = o], W \cup {a})
         /\ LiveOf([h EXCEPT ![a] = o]) = LiveOf(h) \cup {a}
<1> DEFINE g == [h EXCEPT ![a] = o]
<1>1. g = [x \in Addr |-> IF x = a THEN o ELSE h[x]]
  BY DEF Owned
<1> HIDE DEF g
<1>2. LiveOf(g) = LiveOf(h) \cup {a}
  BY <1>1 DEF LiveOf
<1>3. /\ g[a] = o /\ a \notin LiveOf(h)
      /\ \A x \in LiveOf(h) : g[x] = h[x] /\ x # a
  BY <1>1 DEF LiveOf
<1>4. Elements(<<>>) = {} /\ Apart(<<>>)
  BY DEF Elements, Apart
<1>5. Kin(o) = {} /\ Tidy(o)
  BY <1>4 DEF Kin, Tidy
<1>6. Object(o, LiveOf(g))
  <2>1. \A S : <<>> \in Seq(S)
    OBVIOUS
  <2> QED BY <2>1, Zenon DEF Object
<1>7. ASSUME NEW x \in LiveOf(h) PROVE Object(h[x], LiveOf(g))
  <2>1. \A S, T : S \subseteq T => \A s \in Seq(S) : s \in Seq(T)
    OBVIOUS
  <2>2. LiveOf(h) \subseteq LiveOf(g)
    BY <1>2
  <2>3. Object(h[x], LiveOf(h))
    BY DEF Owned
  <2> QED BY <2>1, <2>2, <2>3, Zenon DEF Object
<1>8. g = [x \in Addr |-> g[x]]
  BY <1>1
<1>9. \A x \in LiveOf(h) : Kin(h[x]) \subseteq LiveOf(h)
  BY KinLive
<1>10. \A x \in LiveOf(g) : Object(g[x], LiveOf(g)) /\ Tidy(g[x])
  BY <1>2, <1>3, <1>5, <1>6, <1>7 DEF Owned
<1>11. \A x, y \in LiveOf(g) : x # y => Kin(g[x]) \cap Kin(g[y]) = {}
  <2>1. ASSUME NEW x \in LiveOf(g), NEW y \in LiveOf(g), x # y
        PROVE  Kin(g[x]) \cap Kin(g[y]) = {}
    <3>1. CASE x = a \/ y = a
      BY <1>3, <1>5, <3>1
    <3>2. CASE x # a /\ y # a
      BY <1>2, <1>3, <2>1, <3>2 DEF Owned
    <3> QED BY <3>1, <3>2
  <2> QED BY <2>1
<1>12. /\ W \cup {a} \subseteq LiveOf(g)
       /\ \A x \in LiveOf(g) : Kin(g[x]) \cap (W \cup {a}) = {}
  BY <1>2, <1>3, <1>5, <1>9 DEF Owned
<1>13. \A x \in LiveOf(g) : x \in W \cup {a} \/ \E b \in LiveOf(g) : x \in Kin(g[b])
  BY <1>2, <1>3 DEF Owned
<1> QED
  <2>1. Owned(g, W \cup {a})
    BY <1>8, <1>10, <1>11, <1>12, <1>13 DEF Owned
  <2> QED BY <1>2, <2>1 DEF g

\* g is h after b was given x to list.
Listed(h, g, b, x) == g = WithDirective(h, b, x) \/ g = WithSubblock(h, b, x)

\* Listing an object kills none and changes one other.
LEMMA ListedFacts ==
  ASSUME NEW h, NEW W, Owned(h, W), NEW b \in LiveOf(h), NEW x \in W,
         NEW g, Listed(h, g, b, x)
  PROVE  /\ g = [a \in Addr |-> g[a]]
         /\ LiveOf(g) = LiveOf(h) /\ Kin(g[b]) = Kin(h[b]) \cup {x}
         /\ Object(g[b], LiveOf(h)) /\ Tidy(g[b])
         /\ \A a \in Addr \ {b} : g[a] = h[a]
<1> DEFINE o == h[b]
<1>1. /\ b \in Addr /\ h = [a \in Addr |-> h[a]]
      /\ Object(o, LiveOf(h)) /\ Tidy(o) /\ x \notin Kin(o) /\ x \in LiveOf(h)
  BY DEF Owned, LiveOf
<1>2. PICK k, n, r, d, s : o = [kind |-> k, name |-> n, args |-> r, dirs |-> d, subs |-> s]
  BY <1>1, Zenon DEF Object
<1>3. /\ o.kind # "none" /\ d \in Seq(LiveOf(h)) /\ s \in Seq(LiveOf(h))
      /\ Apart(d) /\ Apart(s) /\ Elements(d) \cap Elements(s) = {}
      /\ x \notin Elements(d) /\ x \notin Elements(s)
  <2>1. o.dirs = d /\ o.subs = s
    BY <1>2
  <2> QED BY <1>1, <2>1 DEF Object, Tidy, Kin, LiveOf
<1> DEFINE p == [kind |-> k, name |-> n, args |-> r, dirs |-> Append(d, x), subs |-> s]
           q == [kind |-> k, name |-> n, args |-> r, dirs |-> d, subs |-> Append(s, x)]
<1>4. g = [h EXCEPT ![b] = p] \/ g = [h EXCEPT ![b] = q]
  <2>1. /\ WithDirective(h, b, x) = [h EXCEPT ![b] = [o EXCEPT !.dirs = Append(@, x)]]
        /\ WithSubblock(h, b, x) = [h EXCEPT ![b] = [o EXCEPT !.subs = Append(@, x)]]
    BY <1>1 DEF WithDirective, WithSubblock
  <2>2. [o EXCEPT !.dirs = Append(@, x)] = p
    BY <1>2
  <2>3. [o EXCEPT !.subs = Append(@, x)] = q
    BY <1>2
  <2> QED BY <2>1, <2>2, <2>3 DEF Listed
<1>5. /\ \A S : \A t \in Seq(S) : \A y \in S : Append(t, y) \in Seq(S)
      /\ Elements(Append(d, x)) = Elements(d) \cup {x} /\ Apart(Append(d, x))
      /\ Elements(Append(s, x)) = Elements(s) \cup {x} /\ Apart(Append(s, x))
  BY <1>3, AppendFacts
<1>6. ASSUME NEW u \in {p, q}
      PROVE  /\ Object(u, LiveOf(h)) /\ Tidy(u) /\ Kin(u) = Kin(o) \cup {x} /\ u.kind # "none"
  <2>1. Kin(o) = Elements(d) \cup Elements(s) /\ k # "none"
    BY <1>2, <1>3 DEF Kin
  <2>2. /\ p.dirs = Append(d, x) /\ p.subs = s /\ q.dirs = d /\ q.subs = Append(s, x)
        /\ p.kind = k /\ q.kind = k
    OBVIOUS
  <2>3. /\ u = [kind |-> u.kind, name |-> u.name, args |-> u.args,
                dirs |-> u.dirs, subs |-> u.subs]
    OBVIOUS
  <2>4. u.kind # "none" /\ Tidy(u) /\ Kin(u) = Kin(o) \cup {x}
    <3>1. CASE u = p
      <4>1. u.dirs = Append(d, x) /\ u.subs = s /\ u.kind = k
        BY <2>2, <3>1
      <4> HIDE DEF p, q, o
      <4>2. Kin(u) = Kin(o) \cup {x}
        BY <1>5, <2>1, <4>1 DEF Kin
      <4>3. Tidy(u)
        BY <1>3, <1>5, <4>1 DEF Tidy
      <4> QED BY <2>1, <4>1, <4>2, <4>3
    <3>2. CASE u = q
      <4>1. u.dirs = d /\ u.subs = Append(s, x) /\ u.kind = k
        BY <2>2, <3>2
      <4> HIDE DEF p, q, o
      <4>2. Kin(u) = Kin(o) \cup {x}
        BY <1>5, <2>1, <4>1 DEF Kin
      <4>3. Tidy(u)
        BY <1>3, <1>5, <4>1 DEF Tidy
      <4> QED BY <2>1, <4>1, <4>2, <4>3
    <3> QED BY <3>1, <3>2
  <2>5. u.dirs \in Seq(LiveOf(h)) /\ u.subs \in Seq(LiveOf(h))
    <3>1. /\ Append(d, x) \in Seq(LiveOf(h)) /\ Append(s, x) \in Seq(LiveOf(h))
      BY <1>1, <1>3, <1>5
    <3> HIDE DEF p, q
    <3> QED BY <1>3, <2>2, <3>1
  <2> QED BY <2>3, <2>4, <2>5, Zenon DEF Object
<1>7. PICK u \in {p, q} : g = [h EXCEPT ![b] = u]
  BY <1>4
<1>8. /\ Object(u, LiveOf(h)) /\ Tidy(u) /\ Kin(u) = Kin(o) \cup {x} /\ u.kind # "none"
  BY <1>6
<1> HIDE DEF p, q, o
<1>9. /\ g = [a \in Addr |-> IF a = b THEN u ELSE h[a]]
      /\ g = [a \in Addr |-> g[a]]
  BY <1>1, <1>7
<1>10. LiveOf(g) = LiveOf(h)
  BY <1>8, <1>9 DEF LiveOf
<1>11. g[b] = u /\ (\A a \in Addr \ {b} : g[a] = h[a]) /\ LiveOf(h) \subseteq Addr
  BY <1>1, <1>9 DEF LiveOf
<1> QED BY <1>8, <1>9, <1>10, <1>11 DEF o

\* Who holds an object lists it in another: it is held no more.
LEMMA OwnedListed ==
  ASSUME NEW h, NEW W, Owned(h, W), NEW b \in LiveOf(h), NEW x \in W,
         NEW g, Listed(h, g, b, x)
  PROVE  Owned(g, W \ {x})
<1>1. /\ g = [a \in Addr |-> g[a]] /\ LiveOf(g) = LiveOf(h)
      /\ Kin(g[b]) = Kin(h[b]) \cup {x} /\ Object(g[b], LiveOf(h)) /\ Tidy(g[b])
      /\ \A a \in Addr \ {b} : g[a] = h[a]
  BY ListedFacts
<1>2. LiveOf(h) \subseteq Addr
  BY DEF LiveOf
<1>3. \A a \in LiveOf(h) : Object(g[a], LiveOf(h)) /\ Tidy(g[a])
  BY <1>1, <1>2 DEF Owned
<1>4. \A a \in LiveOf(h) : Kin(g[a]) = Kin(h[a]) \cup (IF a = b THEN {x} ELSE {})
  BY <1>1, <1>2
<1>5. \A a, c \in LiveOf(h) : a # c => Kin(g[a]) \cap Kin(g[c]) = {}
  <2>1. x \in W /\ \A a \in LiveOf(h) : x \notin Kin(h[a])
    BY DEF Owned
  <2>2. ASSUME NEW a \in LiveOf(h), NEW c \in LiveOf(h), a # c
        PROVE  Kin(g[a]) \cap Kin(g[c]) = {}
    <3>1. Kin(h[a]) \cap Kin(h[c]) = {}
      BY <2>2 DEF Owned
    <3> QED BY <1>4, <2>1, <2>2, <3>1
  <2> QED BY <2>2
<1>6. \A a \in LiveOf(h) : Kin(g[a]) \cap (W \ {x}) = {}
  BY <1>4 DEF Owned
<1>7. \A a \in LiveOf(h) : a \in W \ {x} \/ \E c \in LiveOf(h) : a \in Kin(g[c])
  BY <1>4 DEF Owned
<1> QED BY <1>1, <1>3, <1>5, <1>6, <1>7 DEF Owned

\* An object that is held is freed: what it listed is held instead.
LEMMA OwnedFreed ==
  ASSUME NEW h, NEW W, Owned(h, W), NEW a \in W
  PROVE  /\ Owned([h EXCEPT ![a] = NoObject], (W \ {a}) \cup Kin(h[a]))
         /\ LiveOf([h EXCEPT ![a] = NoObject]) = LiveOf(h) \ {a}
         /\ Kin(h[a]) \subseteq LiveOf(h) /\ a \notin Kin(h[a])
<1> DEFINE g == [h EXCEPT ![a] = NoObject]
           V == (W \ {a}) \cup Kin(h[a])
<1>1. g = [x \in Addr |-> IF x = a THEN NoObject ELSE h[x]]
  BY DEF Owned
<1>2. NoObject.kind = "none"
  BY DEF NoObject
<1> HIDE DEF g, V
<1>3. LiveOf(g) = LiveOf(h) \ {a} /\ a \in LiveOf(h)
  BY <1>1, <1>2 DEF LiveOf, Owned
<1>4. \A x \in LiveOf(g) : g[x] = h[x]
  BY <1>1, <1>3 DEF LiveOf
<1>5. \A x \in LiveOf(h) : a \notin Kin(h[x]) /\ Kin(h[x]) \subseteq LiveOf(h)
  BY KinLive DEF Owned
<1>6. ASSUME NEW x \in LiveOf(g) PROVE Object(g[x], LiveOf(g)) /\ Tidy(g[x])
  <2>1. Object(h[x], LiveOf(h)) /\ Tidy(h[x]) /\ a \notin Kin(h[x])
    BY <1>3, <1>5 DEF Owned
  <2>2. ASSUME NEW S, NEW s \in Seq(S), NEW y, y \notin Elements(s) PROVE s \in Seq(S \ {y})
    BY <2>2 DEF Elements
  <2>3. h[x].dirs \in Seq(LiveOf(g)) /\ h[x].subs \in Seq(LiveOf(g))
    BY <1>3, <2>1, <2>2 DEF Object, Kin
  <2> QED BY <1>4, <2>1, <2>3, Zenon DEF Object
<1>7. \A x, y \in LiveOf(g) : x # y => Kin(g[x]) \cap Kin(g[y]) = {}
  BY <1>3, <1>4 DEF Owned
<1>8. V \subseteq LiveOf(g)
  BY <1>3, <1>5 DEF Owned, V
<1>9. \A x \in LiveOf(g) : Kin(g[x]) \cap V = {}
  BY <1>3, <1>4 DEF Owned, V
<1>10. \A x \in LiveOf(g) : x \in V \/ \E b \in LiveOf(g) : x \in Kin(g[b])
  BY <1>3, <1>4 DEF Owned, V
<1>11. g = [x \in Addr |-> g[x]]
  BY <1>1
<1>12. Owned(g, V)
  BY <1>6, <1>7, <1>8, <1>9, <1>10, <1>11 DEF Owned
<1> QED BY <1>3, <1>5, <1>12 DEF g, V

\* A record of the heap, field by field.
Fields(kind, name, args, dirs, subs) ==
  [kind |-> kind, name |-> name, args |-> args, dirs |-> dirs, subs |-> subs]

\* What config_block_create and config_directive_create return.
LEMMA NewRecords ==
  ASSUME NEW name, NEW args
  PROVE  /\ Block(name, args) = Fields("block", name, args, <<>>, <<>>)
         /\ Directive(name, args) = Fields("directive", name, args, <<>>, <<>>)
<1>1. ASSUME NEW kind
      PROVE [NoObject EXCEPT !.kind = kind, !.name = name, !.args = args]
              = Fields(kind, name, args, <<>>, <<>>)
  <2> DEFINE o0 == NoObject
             o1 == [o0 EXCEPT !.kind = kind]
             o2 == [o1 EXCEPT !.name = name]
             o3 == [o2 EXCEPT !.args = args]
  <2>1. o0 = Fields("none", Null, <<>>, <<>>, <<>>)
    BY DEF NoObject, Fields
  <2>2. o1 = Fields(kind, Null, <<>>, <<>>, <<>>)
    <3> HIDE DEF o0
    <3> QED BY <2>1 DEF Fields
  <2>3. o2 = Fields(kind, name, <<>>, <<>>, <<>>)
    <3> HIDE DEF o1
    <3> QED BY <2>2 DEF Fields
  <2>4. o3 = Fields(kind, name, args, <<>>, <<>>)
    <3> HIDE DEF o2
    <3> QED BY <2>3 DEF Fields
  <2> QED BY <2>4, Zenon
<1> QED BY <1>1, Zenon DEF Block, Directive

\* It lists nothing.
LEMMA NewObjects ==
  ASSUME NEW name, NEW args, NEW o \in {Block(name, args), Directive(name, args)}
  PROVE  /\ o = [kind |-> o.kind, name |-> o.name, args |-> o.args,
                 dirs |-> o.dirs, subs |-> o.subs]
         /\ o.kind # "none" /\ o.dirs = <<>> /\ o.subs = <<>>
<1>1. PICK kind \in {"block", "directive"} : o = Fields(kind, name, args, <<>>, <<>>)
  BY NewRecords
<1> QED BY <1>1 DEF Fields

\* What the heap is after an object was listed in another.
LEMMA ListedRecords ==
  ASSUME NEW h, NEW W, Owned(h, W), NEW b \in LiveOf(h), NEW x
  PROVE  LET o == h[b] IN
         /\ WithDirective(h, b, x) =
              [a \in Addr |-> IF a = b THEN Fields(o.kind, o.name, o.args, Append(o.dirs, x), o.subs)
                                       ELSE h[a]]
         /\ WithSubblock(h, b, x) =
              [a \in Addr |-> IF a = b THEN Fields(o.kind, o.name, o.args, o.dirs, Append(o.subs, x))
                                       ELSE h[a]]
<1> DEFINE o == h[b]
<1>1. b \in Addr /\ h = [a \in Addr |-> h[a]] /\ Object(o, LiveOf(h))
  BY DEF Owned, LiveOf
<1>2. PICK k, n, r, d, s : o = [kind |-> k, name |-> n, args |-> r, dirs |-> d, subs |-> s]
  BY <1>1, Zenon DEF Object
<1>3. /\ WithDirective(h, b, x) = [h EXCEPT ![b] = [o EXCEPT !.dirs = Append(@, x)]]
      /\ WithSubblock(h, b, x) = [h EXCEPT ![b] = [o EXCEPT !.subs = Append(@, x)]]
  BY <1>1 DEF WithDirective, WithSubblock
<1> HIDE DEF o
<1>4. /\ [o EXCEPT !.dirs = Append(@, x)] = Fields(o.kind, o.name, o.args, Append(o.dirs, x), o.subs)
      /\ [o EXCEPT !.subs = Append(@, x)] = Fields(o.kind, o.name, o.args, o.dirs, Append(o.subs, x))
  <2>1. o.kind = k /\ o.name = n /\ o.args = r /\ o.dirs = d /\ o.subs = s
    BY <1>2
  <2>2. [o EXCEPT !.dirs = Append(@, x)] = Fields(k, n, r, Append(d, x), s)
    BY <1>2 DEF Fields
  <2>3. [o EXCEPT !.subs = Append(@, x)] = Fields(k, n, r, d, Append(s, x))
    BY <1>2 DEF Fields
  <2> QED BY <2>1, <2>2, <2>3
<1>5. \A v : [h EXCEPT ![b] = v] = [a \in Addr |-> IF a = b THEN v ELSE h[a]]
  BY <1>1
<1> QED BY <1>3, <1>4, <1>5 DEF o
-----------------------------------------------------------------------------
\* No object is below itself: a rank falls from each to what it lists.
Ranked(h) ==
  \E n \in Nat : \E r \in [Addr -> 0..n] :
    \A b \in LiveOf(h) : \A x \in Kin(h[b]) : r[x] < r[b]

\* An object that is put where there was none, or is gone, changes no rank.
LEMMA RankKept ==
  ASSUME NEW h, NEW g, Ranked(h),
         \A b \in LiveOf(g) : Kin(g[b]) = {} \/ (b \in LiveOf(h) /\ g[b] = h[b])
  PROVE  Ranked(g)
BY DEF Ranked

\* One that is held may list another that is held.
LEMMA RankListed ==
  ASSUME NEW h, NEW W, Owned(h, W), Ranked(h), NEW b \in W, NEW x \in W, x # b,
         NEW g, Listed(h, g, b, x)
  PROVE  Ranked(g)
<1>1. PICK n \in Nat : \E r \in [Addr -> 0..n] :
        \A c \in LiveOf(h) : \A y \in Kin(h[c]) : r[y] < r[c]
  BY DEF Ranked
<1>2. PICK r \in [Addr -> 0..n] : \A c \in LiveOf(h) : \A y \in Kin(h[c]) : r[y] < r[c]
  BY <1>1
<1> DEFINE q == [r EXCEPT ![b] = n + 1]
<1>3. /\ b \in LiveOf(h) /\ x \in LiveOf(h) /\ LiveOf(h) \subseteq Addr
      /\ \A c \in LiveOf(h) : b \notin Kin(h[c])
      /\ \A c \in LiveOf(h) : Kin(h[c]) \subseteq LiveOf(h)
  BY KinLive DEF Owned, LiveOf
<1>4. q \in [Addr -> 0..(n + 1)] /\ q[b] = n + 1 /\ \A c \in Addr \ {b} : q[c] = r[c] /\ r[c] \in 0..n
  BY <1>3
<1> HIDE DEF q
<1>5. /\ LiveOf(g) = LiveOf(h) /\ Kin(g[b]) = Kin(h[b]) \cup {x}
      /\ \A a \in Addr \ {b} : g[a] = h[a]
  BY <1>3, ListedFacts
<1>6. ASSUME NEW c \in LiveOf(g), NEW y \in Kin(g[c]) PROVE q[y] < q[c]
  <2>1. CASE c = b
    <3>1. y \in Addr \ {b}
      BY <1>3, <1>5, <2>1
    <3> QED BY <1>4, <2>1, <3>1
  <2>2. CASE c # b
    <3>1. y \in Kin(h[c]) /\ c \in LiveOf(h) /\ y # b /\ y \in Addr /\ c \in Addr
      BY <1>3, <1>5, <2>2
    <3> QED BY <1>2, <1>4, <2>2, <3>1
  <2> QED BY <2>1, <2>2
<1> QED BY <1>4, <1>6 DEF Ranked

\* If no object is held by anyone, there is none.
LEMMA NoneHeld ==
  ASSUME NEW h, Owned(h, {}), Ranked(h)
  PROVE  LiveOf(h) = {}
<1>1. PICK n \in Nat : \E r \in [Addr -> 0..n] :
        \A c \in LiveOf(h) : \A y \in Kin(h[c]) : r[y] < r[c]
  BY DEF Ranked
<1>2. PICK r \in [Addr -> 0..n] : \A c \in LiveOf(h) : \A y \in Kin(h[c]) : r[y] < r[c]
  BY <1>1
<1>3. SUFFICES ASSUME LiveOf(h) # {} PROVE FALSE
  OBVIOUS
<1> DEFINE T == {n - r[a] : a \in LiveOf(h)}
<1>4. LiveOf(h) \subseteq Addr /\ \A a \in LiveOf(h) : r[a] \in 0..n
  BY DEF LiveOf
<1>5. T \subseteq Nat /\ T # {}
  BY <1>3, <1>4
<1>6. PICK t \in T : \A j \in T : ~(j < t)
  <2> HIDE DEF T
  <2>1. PICK t \in T : \A j \in T : ~(<<j, t>> \in OpToRel(<, Nat))
    BY <1>5, NatLessThanWellFounded, WFMin
  <2>2. ASSUME NEW j \in T, j < t PROVE FALSE
    <3>1. <<j, t>> \in {ss \in Nat \X Nat : ss[1] < ss[2]}
      BY <1>5, <2>2
    <3>2. OpToRel(<, Nat) = {ss \in Nat \X Nat : ss[1] < ss[2]}
      BY Zenon DEF OpToRel
    <3> QED BY <2>1, <3>1, <3>2, Zenon
  <2> QED BY <2>2
<1>7. PICK a \in LiveOf(h) : t = n - r[a]
  OBVIOUS
<1>8. PICK b \in LiveOf(h) : a \in Kin(h[b])
  BY DEF Owned
<1>9. r[a] < r[b] /\ n - r[b] \in T
  BY <1>2, <1>8
<1> QED BY <1>4, <1>6, <1>7, <1>9
-----------------------------------------------------------------------------
LEMMA ConcatFacts ==
  ASSUME NEW S, NEW s \in Seq(S), NEW t \in Seq(S)
  PROVE  /\ s \o t \in Seq(S) /\ Elements(s \o t) = Elements(s) \cup Elements(t)
         /\ Apart(s) /\ Apart(t) /\ Elements(s) \cap Elements(t) = {} => Apart(s \o t)
<1> DEFINE u == s \o t
<1>1. /\ u \in Seq(S) /\ Len(u) = Len(s) + Len(t) /\ Len(s) \in Nat /\ Len(t) \in Nat
      /\ \A k \in 1..Len(s) : u[k] = s[k]
      /\ \A k \in 1..Len(t) : u[Len(s) + k] = t[k]
  OBVIOUS
<1> HIDE DEF u
<1>2. ASSUME NEW k \in 1..Len(u)
      PROVE  \/ k \in 1..Len(s) /\ u[k] = s[k]
             \/ k - Len(s) \in 1..Len(t) /\ u[k] = t[k - Len(s)]
  <2>1. CASE k <= Len(s)
    BY <1>1, <2>1
  <2>2. CASE ~(k <= Len(s))
    <3>1. k - Len(s) \in 1..Len(t) /\ Len(s) + (k - Len(s)) = k
      BY <1>1, <2>2
    <3> QED BY <1>1, <3>1
  <2> QED BY <2>1, <2>2
<1>3. Elements(u) = Elements(s) \cup Elements(t)
  <2>1. ASSUME NEW x \in Elements(u) PROVE x \in Elements(s) \cup Elements(t)
    BY <1>2 DEF Elements
  <2>2. ASSUME NEW x \in Elements(s) PROVE x \in Elements(u)
    <3>1. PICK k \in 1..Len(s) : x = s[k]
      BY DEF Elements
    <3>2. k \in 1..Len(u) /\ u[k] = x
      BY <1>1, <3>1
    <3> QED BY <3>2 DEF Elements
  <2>3. ASSUME NEW x \in Elements(t) PROVE x \in Elements(u)
    <3>1. PICK k \in 1..Len(t) : x = t[k]
      BY DEF Elements
    <3>2. Len(s) + k \in 1..Len(u) /\ u[Len(s) + k] = x
      BY <1>1, <3>1
    <3> QED BY <3>2 DEF Elements
  <2> QED BY <2>1, <2>2, <2>3
<1>4. ASSUME Apart(s), Apart(t), Elements(s) \cap Elements(t) = {},
             NEW j \in 1..Len(u), NEW k \in 1..Len(u), u[j] = u[k]
      PROVE  j = k
  <2>1. \A i \in 1..Len(s), l \in 1..Len(t) : s[i] # t[l]
    BY <1>4 DEF Elements
  <2>2. CASE j \in 1..Len(s) /\ u[j] = s[j]
    <3>1. k \in 1..Len(s) /\ u[k] = s[k]
      BY <1>2, <1>4, <2>1, <2>2
    <3> QED BY <1>4, <2>2, <3>1 DEF Apart
  <2>3. CASE j - Len(s) \in 1..Len(t) /\ u[j] = t[j - Len(s)]
    <3>1. k - Len(s) \in 1..Len(t) /\ u[k] = t[k - Len(s)]
      BY <1>2, <1>4, <2>1, <2>3
    <3>2. j - Len(s) = k - Len(s)
      BY <1>4, <2>3, <3>1 DEF Apart
    <3> QED BY <1>1, <3>2
  <2> QED BY <1>2, <2>2, <2>3
<1> QED BY <1>1, <1>3, <1>4 DEF u, Apart

\* The roots and the free under way hold W between them, each object once.
Holders(roots, W) ==
  /\ roots \in Seq(Addr \cup {Null})
  /\ \A j, k \in 1..Len(roots) : roots[j] = roots[k] /\ roots[j] # Null => j = k
  /\ W = (Elements(roots) \ {Null}) \cup zap
  /\ zap \cap Elements(roots) = {}

\* Then exactly one place will free a live object, and none a dead one.
LEMMA OwnersCount ==
  ASSUME NEW W, NEW roots, Owned(heap, W), Holders(roots, W), NEW a \in Addr
  PROVE  Cardinality(Owners(a, roots)) = IF a \in Live THEN 1 ELSE 0
<1>0. /\ Live = LiveOf(heap) /\ Null \notin Addr /\ a # Null /\ Live \subseteq Addr
      /\ Null \notin Live
  BY TreeAssumption DEF Live, LiveOf
<1> DEFINE kids(b) == Kids(heap[b])
<1>1. ASSUME NEW b \in Live PROVE Elements(kids(b)) = Kin(heap[b]) /\ Apart(kids(b))
  <2>1. /\ heap[b].dirs \in Seq(Live) /\ heap[b].subs \in Seq(Live) /\ Tidy(heap[b])
    BY <1>0 DEF Owned, Object
  <2> QED BY <2>1, ConcatFacts DEF Kids, Tidy, Kin
<1> HIDE DEF kids
<1>2. \A p : p \in Owners(a, roots) <=>
        \/ \E b \in Live : \E k \in 1..Len(kids(b)) : p = <<b, k>> /\ kids(b)[k] = a
        \/ \E k \in 1..Len(roots) : p = <<Null, k>> /\ roots[k] = a
        \/ a \in zap /\ p = <<Null, 0>>
  <2> DEFINE A == UNION {{<<b, k>> : k \in {j \in 1..Len(kids(b)) : kids(b)[j] = a}} : b \in Live}
             B == {<<Null, k>> : k \in {j \in 1..Len(roots) : roots[j] = a}}
             C == IF a \in zap THEN {<<Null, 0>>} ELSE {}
  <2>1. Owners(a, roots) = A \cup B \cup C
    BY Zenon DEF Owners, kids
  <2>2. \A p : p \in A <=>
          \E b \in Live : \E k \in 1..Len(kids(b)) : p = <<b, k>> /\ kids(b)[k] = a
    OBVIOUS
  <2>3. \A p : p \in B <=> \E k \in 1..Len(roots) : p = <<Null, k>> /\ roots[k] = a
    OBVIOUS
  <2>4. \A p : p \in C <=> a \in zap /\ p = <<Null, 0>>
    OBVIOUS
  <2> HIDE DEF A, B, C
  <2> QED BY <2>1, <2>2, <2>3, <2>4
<1>3. \A b \in Live : \A k \in 1..Len(kids(b)) : kids(b)[k] = a => a \in Kin(heap[b])
  BY <1>1 DEF Elements
<1>4. \A k \in 1..Len(roots) : roots[k] = a => a \in Elements(roots) /\ a \in W
  BY <1>0 DEF Holders, Elements
<1>5. a \in zap => a \in W /\ a \notin Elements(roots)
  BY DEF Holders
<1>6. W \subseteq Live /\ \A b \in Live : Kin(heap[b]) \subseteq Live /\ Kin(heap[b]) \cap W = {}
  BY <1>0, KinLive DEF Owned
<1>7. CASE a \notin Live
  <2>1. Owners(a, roots) = {}
    BY <1>2, <1>3, <1>4, <1>5, <1>6, <1>7
  <2> QED BY <1>7, <2>1, FS_EmptySet
<1>9. CASE a \in Live /\ a \in W
  <2>1. \A p : p \in Owners(a, roots) <=>
          \/ \E k \in 1..Len(roots) : p = <<Null, k>> /\ roots[k] = a
          \/ a \in zap /\ p = <<Null, 0>>
    BY <1>2, <1>3, <1>6, <1>9
  <2>2. CASE a \in zap
    <3>1. \A p : p \in Owners(a, roots) <=> p = <<Null, 0>>
      BY <1>4, <1>5, <2>1, <2>2
    <3>2. Owners(a, roots) = {<<Null, 0>>}
      BY <3>1
    <3> QED BY <1>9, <3>2, FS_Singleton
  <2>3. CASE a \notin zap
    <3>1. PICK k \in 1..Len(roots) : roots[k] = a
      BY <1>9, <2>3 DEF Holders, Elements
    <3>2. \A j \in 1..Len(roots) : roots[j] = a => j = k
      BY <1>0, <3>1 DEF Holders
    <3>3. \A p : p \in Owners(a, roots) <=> p = <<Null, k>>
      BY <2>1, <2>3, <3>1, <3>2
    <3>4. Owners(a, roots) = {<<Null, k>>}
      BY <3>3
    <3> QED BY <1>9, <3>4, FS_Singleton
  <2> QED BY <2>2, <2>3
<1>10. CASE a \in Live /\ a \notin W
  <2>1. \A p : p \in Owners(a, roots) <=>
          \E b \in Live : \E k \in 1..Len(kids(b)) : p = <<b, k>> /\ kids(b)[k] = a
    BY <1>2, <1>4, <1>5, <1>10
  <2>2. PICK b \in Live : a \in Kin(heap[b])
    BY <1>0, <1>10 DEF Owned
  <2>3. \A c \in Live : a \in Kin(heap[c]) => c = b
    BY <1>0, <2>2 DEF Owned
  <2>4. PICK k \in 1..Len(kids(b)) : kids(b)[k] = a
    BY <1>1, <2>2 DEF Elements
  <2>5. \A j \in 1..Len(kids(b)) : kids(b)[j] = a => j = k
    BY <1>1, <2>4 DEF Apart
  <2>6. \A p : p \in Owners(a, roots) <=> p = <<b, k>>
    BY <1>3, <2>1, <2>3, <2>4, <2>5
  <2>7. Owners(a, roots) = {<<b, k>>}
    BY <2>6
  <2> QED BY <1>10, <2>7, FS_Singleton
<1> QED BY <1>7, <1>9, <1>10
=============================================================================
