-------------------------- MODULE FunctionBodyProofs --------------------------
(***************************************************************************)
(* Theorems about FunctionBody, for any set of bodies, of any depth and    *)
(* length.                                                                 *)
(*                                                                         *)
(* The second walk goes the way of the first one: WalksTo has the whole    *)
(* way, every step of it decided by the step before, and the generator is  *)
(* somewhere on it.  So it takes the scopes for the lists they were made   *)
(* for, and all of them.  What it knows of its blocks is Good: instructions*)
(* lead to blocks that were emitted or that a call on the stack still has  *)
(* to emit, and every block ends with its only terminator, unless a        *)
(* for-loop was left.                                                      *)
(***************************************************************************)
EXTENDS FunctionBody, SetInduction, SequenceTheorems, TLAPS

(***************************************************************************)
(* The list at a path                                                      *)
(***************************************************************************)

(* The lists on the way along a path, outermost first.                     *)
IsDescent(list, statements, path) ==
    list = [n \in 0 .. Len(path) |->
              IF n = 0 THEN statements
                       ELSE BodyOf(list[n - 1][path[n][1]], path[n][2])]

(* There are such lists, up to any point of the path.                      *)
LEMMA DescentExists ==
  ASSUME NEW statements, NEW path, Len(path) \in Nat
  PROVE  \E list : IsDescent(list, statements, path)
<1> DEFINE Down(list, n) == IF n = 0 THEN statements
                            ELSE BodyOf(list[n - 1][path[n][1]], path[n][2])
           U == {n \in Nat : \E list : list = [m \in 0 .. n |-> Down(list, m)]}
<1>1. 0 \in U
  <2>1. [m \in 0 .. 0 |-> statements] = [m \in 0 .. 0 |-> Down([k \in 0 .. 0 |-> statements], m)]
    OBVIOUS
  <2> QED BY <2>1
<1>2. ASSUME NEW n \in U
      PROVE  n + 1 \in U
  <2>1. PICK list : list = [m \in 0 .. n |-> Down(list, m)]
    OBVIOUS
  <2> DEFINE next == BodyOf(list[n][path[n + 1][1]], path[n + 1][2])
             longer == [m \in 0 .. n + 1 |-> IF m <= n THEN list[m] ELSE next]
  <2>2. ASSUME NEW m \in 0 .. n + 1
        PROVE  longer[m] = Down(longer, m)
    <3>1. CASE m <= n
      <4>1. list[m] = Down(list, m)
        <5>1. m \in 0 .. n
          BY <3>1
        <5> HIDE DEF Down
        <5> QED BY <2>1, <5>1
      <4>2. m # 0 => longer[m - 1] = list[m - 1]
        BY <3>1
      <4> QED BY <3>1, <4>1, <4>2
    <3>2. CASE m = n + 1
      <4>1. longer[m] = next /\ longer[m - 1] = list[n] /\ m # 0 /\ m - 1 = n
        BY <3>2
      <4> HIDE DEF longer
      <4> QED BY <3>2, <4>1
    <3> QED BY <3>1, <3>2
  <2>3. longer = [m \in 0 .. n + 1 |-> longer[m]]
    OBVIOUS
  <2> HIDE DEF longer, Down
  <2>4. longer = [m \in 0 .. n + 1 |-> Down(longer, m)]
    BY <2>2, <2>3
  <2> QED BY <2>4
<1>3. Len(path) \in U
  <2> HIDE DEF U
  <2>1. U \in SUBSET Nat
    BY DEF U
  <2> QED BY <1>1, <1>2, <2>1, NaturalInduction
<1> QED BY <1>3 DEF IsDescent

(* StatementsAt reads the last of these lists.                             *)
LEMMA StatementsAtDescent ==
  ASSUME NEW statements, NEW path, Len(path) \in Nat
  PROVE  \E list : IsDescent(list, statements, path) /\ StatementsAt(statements, path) = list[Len(path)]
<1> DEFINE D(list) == [n \in 0 .. Len(path) |->
                        IF n = 0 THEN statements
                        ELSE BodyOf(list[n - 1][path[n][1]], path[n][2])]
           chosen == CHOOSE list : list = D(list)
<1>1. \E list : list = D(list)
  <2>1. PICK list : IsDescent(list, statements, path)
    BY DescentExists
  <2>2. list = D(list)
    BY <2>1 DEF IsDescent
  <2> HIDE DEF D
  <2> QED BY <2>2
<1>2. chosen = D(chosen)
  <2> HIDE DEF D
  <2> QED BY <1>1
<1>3. StatementsAt(statements, path) = chosen[Len(path)]
  BY DEF StatementsAt
<1>4. IsDescent(chosen, statements, path)
  BY <1>2 DEF IsDescent
<1> QED BY <1>3, <1>4

(* The empty path leads to the body itself.                                *)
LEMMA StatementsAtRoot ==
  ASSUME NEW statements
  PROVE  StatementsAt(statements, <<>>) = statements
<1>1. Len(<<>>) = 0
  OBVIOUS
<1>2. PICK list : IsDescent(list, statements, <<>>) /\ StatementsAt(statements, <<>>) = list[0]
  BY <1>1, StatementsAtDescent
<1> QED BY <1>1, <1>2 DEF IsDescent

(* Every one of them but the first is a list of a statement of the one     *)
(* before it.                                                              *)
Descends(list, statements, path, N) ==
    /\ list[0] = statements
    /\ \A n \in 1 .. N : list[n] = BodyOf(list[n - 1][path[n][1]], path[n][2])

LEMMA DescentIs ==
  ASSUME NEW statements, NEW path, NEW N \in Nat, Len(path) = N,
         NEW list, IsDescent(list, statements, path)
  PROVE  Descends(list, statements, path, N)
<1>1. list = [n \in 0 .. N |->
                IF n = 0 THEN statements
                         ELSE BodyOf(list[n - 1][path[n][1]], path[n][2])]
  BY DEF IsDescent
<1>2. \A n \in 0 .. N : list[n] = IF n = 0 THEN statements
                                   ELSE BodyOf(list[n - 1][path[n][1]], path[n][2])
  BY <1>1, Zenon
<1>3. 0 \in 0 .. N
  OBVIOUS
<1>4. ASSUME NEW n \in 1 .. N
      PROVE  n \in 0 .. N /\ n # 0
  OBVIOUS
<1> QED BY <1>2, <1>3, <1>4 DEF Descends

(* One step further along a path is one list further in.                   *)
LEMMA StatementsAtWithin ==
  ASSUME NEW statements, NEW S, NEW path \in Seq(S), NEW m, NEW k, <<m, k>> \in S
  PROVE  StatementsAt(statements, Within(path, m, k)) = BodyOf(StatementsAt(statements, path)[m], k)
<1> DEFINE further == Within(path, m, k)
           N == Len(path)
<1>1. /\ N \in Nat
      /\ Len(further) = N + 1
      /\ further[N + 1] = <<m, k>>
      /\ \A n \in 1 .. N : further[n] = path[n]
  BY DEF Within
<1> HIDE DEF further, N
<1>2. PICK a : IsDescent(a, statements, path) /\ StatementsAt(statements, path) = a[N]
  BY <1>1, StatementsAtDescent DEF N
<1>3. PICK b : IsDescent(b, statements, further) /\ StatementsAt(statements, further) = b[N + 1]
  <2>1. Len(further) \in Nat
    BY <1>1
  <2> QED BY <1>1, <2>1, StatementsAtDescent
<1>4. /\ a[0] = statements /\ b[0] = statements
      /\ \A n \in 1 .. N : a[n] = BodyOf(a[n - 1][path[n][1]], path[n][2])
      /\ \A n \in 1 .. N + 1 : b[n] = BodyOf(b[n - 1][further[n][1]], further[n][2])
  <2>1. Len(path) = N /\ N + 1 \in Nat
    BY <1>1 DEF N
  <2>2. Descends(a, statements, path, N) /\ Descends(b, statements, further, N + 1)
    BY <1>1, <1>2, <1>3, <2>1, DescentIs
  <2> QED BY <2>2 DEF Descends
<1>5. \A n \in 0 .. N : a[n] = b[n]
  <2> DEFINE U == {n \in 0 .. N : a[n] = b[n]}
  <2>1. 0 \in U
    BY <1>1, <1>4
  <2>2. ASSUME NEW n \in 0 .. N - 1, n \in U
        PROVE  n + 1 \in U
    <3>1. n + 1 \in 1 .. N /\ n + 1 \in 1 .. N + 1 /\ (n + 1) - 1 = n /\ n + 1 \in 0 .. N
      BY <1>1
    <3>2. a[n + 1] = BodyOf(a[n][path[n + 1][1]], path[n + 1][2])
      BY <1>4, <3>1
    <3>3. b[n + 1] = BodyOf(b[n][further[n + 1][1]], further[n + 1][2])
      BY <1>4, <3>1
    <3>4. a[n] = b[n] /\ further[n + 1] = path[n + 1]
      BY <1>1, <2>2, <3>1
    <3> QED BY <3>1, <3>2, <3>3, <3>4
  <2>3. \A n \in 0 .. N : n \in U
    <3> HIDE DEF U
    <3> QED BY <1>1, <2>1, <2>2, IntervalInduction
  <2> QED BY <2>3
<1>6. b[N + 1] = BodyOf(b[N][further[N + 1][1]], further[N + 1][2])
  <2>1. N + 1 \in 1 .. N + 1 /\ (N + 1) - 1 = N
    BY <1>1
  <2> QED BY <1>4, <2>1
<1>7. further[N + 1][1] = m /\ further[N + 1][2] = k /\ a[N] = b[N]
  <2>1. N \in 0 .. N
    BY <1>1
  <2> QED BY <1>1, <1>5, <2>1
<1> QED BY <1>2, <1>3, <1>6, <1>7 DEF further

(***************************************************************************)
(* Paths, calls and stacks                                                 *)
(***************************************************************************)

Paths == Seq(Nat \X Nat)

Calls == [path : Paths, scope : Paths, variable_scope : Paths, if_scope : Paths,
          n : Nat \ {0}, within : Nat, unreachable : BOOLEAN,
          end_block : Nat, next_block : Nat, condition_block : Nat, old_break_end_block : Nat]

(* The calls but the last one.                                             *)
LEMMA CallersOfStack ==
  ASSUME NEW S, NEW s \in Seq(S), Len(s) > 0
  PROVE  LET t == SubSeq(s, 1, Len(s) - 1)
         IN  /\ t \in Seq(S)
             /\ Len(t) = Len(s) - 1
             /\ \A j \in 1 .. Len(s) - 1 : t[j] = s[j]
<1>1. PICK n \in Nat : n = Len(s)
  OBVIOUS
<1>2. \A j \in 1 .. n - 1 : s[j] \in S
  BY <1>1
<1> QED BY <1>1, <1>2, SubSeqProperties

Replaced(s, a) == Append(SubSeq(s, 1, Len(s) - 1), a)
Pushed(s, a, b) == SubSeq(s, 1, Len(s) - 1) \o <<a, b>>

ReplacesTop(t, s, a) ==
    /\ t \in Seq(Calls)
    /\ Len(t) = Len(s)
    /\ \A j \in 1 .. Len(s) : j # Len(s) => t[j] = s[j]
    /\ t[Len(s)] = a

PushesOnTop(t, s, a, b) ==
    /\ t \in Seq(Calls)
    /\ Len(t) = Len(s) + 1
    /\ \A j \in 1 .. Len(s) : j # Len(s) => t[j] = s[j]
    /\ t[Len(s)] = a
    /\ t[Len(s) + 1] = b

(* The lemmas for both, which say what the calls are.                      *)
LEMMA ReplaceTop ==
  ASSUME NEW s \in Seq(Calls), Len(s) > 0, NEW a \in Calls
  PROVE  ReplacesTop(Replaced(s, a), s, a)
<1> DEFINE u == SubSeq(s, 1, Len(s) - 1)
<1>1. u \in Seq(Calls) /\ Len(u) = Len(s) - 1 /\ \A j \in 1 .. Len(s) - 1 : u[j] = s[j]
  BY CallersOfStack
<1> HIDE DEF u
<1>2. PICK n \in Nat : n = Len(s)
  OBVIOUS
<1>3. /\ Append(u, a) \in Seq(Calls)
      /\ Len(Append(u, a)) = n
      /\ \A j \in 1 .. n - 1 : Append(u, a)[j] = s[j]
      /\ Append(u, a)[n] = a
  BY <1>1, <1>2
<1> DEFINE t == Append(u, a)
<1>4. Replaced(s, a) = t
  BY DEF Replaced, u
<1> HIDE DEF t
<1>5. t \in Seq(Calls) /\ Len(t) = n /\ t[n] = a /\ \A j \in 1 .. n - 1 : t[j] = s[j]
  BY <1>3 DEF t
<1>6. \A j \in 1 .. n : j # n => t[j] = s[j]
  BY <1>5
<1>7. ReplacesTop(t, s, a)
  BY <1>2, <1>5, <1>6 DEF ReplacesTop
<1> QED BY <1>4, <1>7

(* The same with a call more.                                              *)
LEMMA ReplaceTopAndPush ==
  ASSUME NEW s \in Seq(Calls), Len(s) > 0, NEW a \in Calls, NEW b \in Calls
  PROVE  PushesOnTop(Pushed(s, a, b), s, a, b)
<1> DEFINE u == SubSeq(s, 1, Len(s) - 1)
           p == <<a, b>>
           t == u \o p
<1>0. PICK n \in Nat : n = Len(s)
  OBVIOUS
<1>1. u \in Seq(Calls) /\ Len(u) = n - 1 /\ \A j \in 1 .. n - 1 : u[j] = s[j]
  BY <1>0, CallersOfStack
<1>2. p \in Seq(Calls) /\ Len(p) = 2 /\ p[1] = a /\ p[2] = b
  OBVIOUS
<1> HIDE DEF u, p
<1>3. /\ t \in Seq(Calls) /\ Len(t) = n + 1
      /\ \A j \in 1 .. n + 1 : t[j] = IF j <= n - 1 THEN u[j] ELSE p[j - (n - 1)]
  <2>1. /\ u \o p \in Seq(Calls)
        /\ Len(u \o p) = Len(u) + Len(p)
        /\ \A j \in 1 .. Len(u) + Len(p) : (u \o p)[j] = IF j <= Len(u) THEN u[j] ELSE p[j - Len(u)]
    BY <1>1, <1>2, ConcatProperties
  <2>2. Len(u) = n - 1 /\ Len(p) = 2 /\ Len(u) + Len(p) = n + 1
    BY <1>0, <1>1, <1>2
  <2> QED BY <2>1, <2>2
<1>6. Pushed(s, a, b) = t
  BY DEF Pushed, u, p
<1> HIDE DEF t
<1>4. t[n] = a /\ t[n + 1] = b
  <2>1. n \in 1 .. n + 1 /\ n + 1 \in 1 .. n + 1 /\ n - (n - 1) = 1 /\ n + 1 - (n - 1) = 2 /\ ~(n <= n - 1) /\ ~(n + 1 <= n - 1)
    BY <1>0
  <2> QED BY <1>2, <1>3, <2>1
<1>5. ASSUME NEW j \in 1 .. n - 1
      PROVE  t[j] = s[j]
  <2>1. j \in 1 .. n + 1 /\ j <= n - 1
    OBVIOUS
  <2> QED BY <1>1, <1>3, <2>1
<1> QED BY <1>0, <1>3, <1>4, <1>5, <1>6 DEF PushesOnTop

(* A path within another one tells where it was entered.                   *)
LEMMA WithinIsInjective ==
  ASSUME NEW p \in Paths, NEW m \in Nat, NEW k \in Nat,
         NEW q \in Paths, NEW m2 \in Nat, NEW k2 \in Nat,
         Within(p, m, k) = Within(q, m2, k2)
  PROVE  p = q /\ m = m2 /\ k = k2
<1>1. PICK a \in Nat : a = Len(p)
  BY DEF Paths
<1>2. PICK b \in Nat : b = Len(q)
  BY DEF Paths
<1> DEFINE P == Within(p, m, k)
           Q == Within(q, m2, k2)
<1>3. Len(P) = a + 1 /\ P[a + 1] = <<m, k>> /\ \A j \in 1 .. a : P[j] = p[j]
  BY <1>1 DEF Paths, Within
<1>4. Len(Q) = b + 1 /\ Q[b + 1] = <<m2, k2>> /\ \A j \in 1 .. b : Q[j] = q[j]
  BY <1>2 DEF Paths, Within
<1> HIDE DEF P, Q
<1>5. P = Q
  BY DEF P, Q
<1>6. a = b
  BY <1>3, <1>4, <1>5
<1>7. <<m, k>> = <<m2, k2>>
  BY <1>3, <1>4, <1>5, <1>6
<1>8. \A j \in 1 .. a : p[j] = q[j]
  BY <1>3, <1>4, <1>5, <1>6
<1>9. p = q
  BY <1>1, <1>2, <1>6, <1>8, SeqEqual DEF Paths
<1> QED BY <1>7, <1>9

(* A path within another one is a path, never the one of the body.         *)
LEMMA WithinIsPath ==
  ASSUME NEW p \in Paths, NEW m \in Nat, NEW k \in Nat
  PROVE  Within(p, m, k) \in Paths /\ Within(p, m, k) # <<>>
BY DEF Within, Paths

(***************************************************************************)
(* The calls of a walk                                                     *)
(***************************************************************************)

(* The list of a call in the body b, and the statement it is at.           *)
ListOf(b, call) == StatementsAt(b, call.path)
StatementOf(b, call) == ListOf(b, call)[call.n]

IsUnderWay(b, call) ==
    /\ call.n <= Len(ListOf(b, call))
    /\ call.within > 0
    /\ call.within <= BodyCount(StatementOf(b, call))

(* A call of a walk, in a list of the body, with its variables in the      *)
(* scope of the list.                                                      *)
IsCallOf(b, call) ==
    /\ call \in Calls
    /\ ListOf(b, call) \in Bodies
    /\ call.n <= Len(ListOf(b, call)) + 1
    /\ call.within = 0 \/ IsUnderWay(b, call)
    /\ call.variable_scope = call.path

IsIn(path, scopes) == \E k \in 1 .. Len(scopes) : scopes[k] = path

(* The calls follow one another into the body, and the lists of all but    *)
(* the first have scopes.                                                  *)
CallsNest(b, stk, scopes) ==
    /\ stk \in Seq(Calls)
    /\ Len(stk) > 0
    /\ stk[1].path = <<>>
    /\ \A j \in 1 .. Len(stk) :
          /\ IsCallOf(b, stk[j])
          /\ j < Len(stk) => IsUnderWay(b, stk[j])
          /\ j > 1 => /\ stk[j].path = Within(stk[j - 1].path, stk[j - 1].n, stk[j - 1].within)
                      /\ IsIn(stk[j].path, scopes)

TopOf(stk) == stk[Len(stk)]
CallersOf(stk) == SubSeq(stk, 1, Len(stk) - 1)

(* A statement of a body.                                                  *)
LEMMA StatementsAreTyped ==
  ASSUME NEW list \in Bodies
  PROVE  /\ list \in Seq(Statements(Bodies))
         /\ Len(list) \in Nat
         /\ DOMAIN list = 1 .. Len(list)
         /\ \A n \in 1 .. Len(list) : list[n] \in Statements(Bodies) /\ IsWellFormed(list[n])
BY BodiesAssumption

(* The lists of a statement: how many there are, and that they are lists.  *)
LEMMA BodyCountOf ==
  ASSUME NEW statement \in Statements(Bodies), IsWellFormed(statement)
  PROVE  /\ Conditions(statement) \in Nat
         /\ BodyCount(statement) \in Nat
         /\ BodyCount(statement) = IF HasElse(statement) THEN Conditions(statement) + 1 ELSE Conditions(statement)
         /\ statement.kind \in {"while", "for"} =>
              BodyCount(statement) = 1 /\ Conditions(statement) = 1 /\ ~ HasElse(statement)
         /\ statement.kind = "if" => Conditions(statement) > 0
         /\ statement.kind \notin {"if", "while", "for"} => BodyCount(statement) = 0
         /\ \A k \in 1 .. BodyCount(statement) : BodyOf(statement, k) \in Bodies
<1>1. /\ statement.bodies \in Seq(Bodies)
      /\ statement.else_statements \in Bodies
      /\ Len(statement.bodies) \in Nat
      /\ \A k \in 1 .. Len(statement.bodies) : statement.bodies[k] \in Bodies
  BY DEF Statements
<1>2. /\ Conditions(statement) \in Nat
      /\ BodyCount(statement) = IF HasElse(statement) THEN Conditions(statement) + 1 ELSE Conditions(statement)
  <2>1. Conditions(statement) \in Nat
    BY <1>1 DEF Conditions
  <2> QED BY <2>1 DEF BodyCount
<1>3. ASSUME NEW k \in 1 .. BodyCount(statement)
      PROVE  BodyOf(statement, k) \in Bodies
  BY <1>1, <1>2 DEF BodyOf, Conditions
<1>4. statement.kind = "if" => Conditions(statement) > 0
  <2>1. SUFFICES ASSUME statement.kind = "if" PROVE Conditions(statement) > 0
    OBVIOUS
  <2>2. statement.bodies # <<>>
    BY <2>1 DEF IsWellFormed
  <2> QED BY <1>1, <2>2, EmptySeq DEF Conditions
<1>5. statement.kind \in {"while", "for"} =>
        BodyCount(statement) = 1 /\ Conditions(statement) = 1 /\ ~ HasElse(statement)
  BY <1>2 DEF IsWellFormed, Conditions, HasElse
<1>6. statement.kind \notin {"if", "while", "for"} => BodyCount(statement) = 0
  <2>1. SUFFICES ASSUME statement.kind \notin {"if", "while", "for"}
                 PROVE  BodyCount(statement) = 0
    OBVIOUS
  <2>2. statement.bodies = <<>> /\ statement.else_statements = <<>>
    BY <2>1 DEF IsWellFormed
  <2> QED BY <1>2, <2>2 DEF Conditions, HasElse
<1> QED BY <1>2, <1>3, <1>4, <1>5, <1>6

(* What is known of the call at the top.                                   *)
LEMMA TopIsCall ==
  ASSUME NEW b, NEW stk, NEW scopes, CallsNest(b, stk, scopes)
  PROVE  /\ Len(stk) \in Nat \ {0}
         /\ IsCallOf(b, TopOf(stk))
         /\ TopOf(stk) \in Calls
         /\ ListOf(b, TopOf(stk)) \in Bodies
         /\ TopOf(stk).variable_scope = TopOf(stk).path
BY DEF CallsNest, TopOf, IsCallOf

(* The statement that the last call is at.                                 *)
LEMMA TopStatement ==
  ASSUME NEW b, NEW stk, NEW scopes, CallsNest(b, stk, scopes),
         TopOf(stk).n <= Len(ListOf(b, TopOf(stk)))
  PROVE  /\ StatementOf(b, TopOf(stk)) \in Statements(Bodies)
         /\ IsWellFormed(StatementOf(b, TopOf(stk)))
<1>1. TopOf(stk).n \in 1 .. Len(ListOf(b, TopOf(stk)))
  <2>1. Len(ListOf(b, TopOf(stk))) \in Nat /\ TopOf(stk).n \in Nat \ {0}
    BY TopIsCall, StatementsAreTyped DEF Calls
  <2> QED BY <2>1
<1> QED BY <1>1, TopIsCall, StatementsAreTyped DEF StatementOf

(* The call at the top calls itself for the k-th list of its statement.    *)
LEMMA EnterKeepsNesting ==
  ASSUME NEW b, NEW stk, NEW scopes, CallsNest(b, stk, scopes),
         NEW scopes2, \A path : IsIn(path, scopes) => IsIn(path, scopes2),
         NEW k \in Nat, k > 0, k <= BodyCount(StatementOf(b, TopOf(stk))),
         TopOf(stk).n <= Len(ListOf(b, TopOf(stk))),
         NEW top \in Calls, top.path = TopOf(stk).path, top.variable_scope = TopOf(stk).variable_scope,
         top.n = TopOf(stk).n, top.within = k,
         NEW path, path = Within(TopOf(stk).path, TopOf(stk).n, k), IsIn(path, scopes2),
         NEW scope \in Paths
  PROVE  /\ CallsNest(b, Pushed(stk, top, Call(path, scope, path)), scopes2)
         /\ Call(path, scope, path) \in Calls
         /\ ListOf(b, Call(path, scope, path)) = BodyOf(StatementOf(b, TopOf(stk)), k)
<1> DEFINE child == Call(path, scope, path)
           stk2 == Pushed(stk, top, child)
<1>1. TopOf(stk) \in Calls /\ Len(stk) \in Nat \ {0} /\ stk \in Seq(Calls)
  BY TopIsCall DEF CallsNest
<1>2. TopOf(stk).path \in Paths /\ TopOf(stk).n \in Nat \ {0}
  BY <1>1 DEF Calls
<1>3. path \in Paths
  BY <1>2, WithinIsPath
<1>4. child \in Calls /\ child.path = path /\ child.variable_scope = path /\ child.n = 1 /\ child.within = 0
  <2>1. <<>> \in Paths
    BY DEF Paths
  <2> QED BY <1>3, <2>1 DEF Call, Calls
<1>5. ListOf(b, child) = BodyOf(StatementOf(b, TopOf(stk)), k)
  <2> DEFINE parent == TopOf(stk).path
             n == TopOf(stk).n
             Steps == Nat \X Nat
  <2>1. parent \in Seq(Steps) /\ <<n, k>> \in Steps
    BY <1>2 DEF Paths
  <2> HIDE DEF parent, n, Steps
  <2>2. StatementsAt(b, Within(parent, n, k)) = BodyOf(StatementsAt(b, parent)[n], k)
    BY <2>1, StatementsAtWithin
  <2> QED BY <1>4, <2>2 DEF ListOf, StatementOf, parent, n
<1>6. ListOf(b, child) \in Bodies
  <2>1. k \in 1 .. BodyCount(StatementOf(b, TopOf(stk)))
    BY TopStatement, BodyCountOf
  <2> QED BY <1>5, <2>1, TopStatement, BodyCountOf
<1>7. IsCallOf(b, child)
  <2>1. Len(ListOf(b, child)) \in Nat
    BY <1>6, StatementsAreTyped
  <2> QED BY <1>4, <1>6, <2>1 DEF IsCallOf
<1>8. IsCallOf(b, top) /\ IsUnderWay(b, top)
  <2>1. ListOf(b, top) = ListOf(b, TopOf(stk)) /\ StatementOf(b, top) = StatementOf(b, TopOf(stk))
    BY DEF ListOf, StatementOf
  <2>2. IsUnderWay(b, top)
    BY <2>1 DEF IsUnderWay
  <2> QED BY <2>1, <2>2, TopIsCall DEF IsCallOf
<1> HIDE DEF child
<1>9. /\ stk2 \in Seq(Calls)
      /\ Len(stk2) = Len(stk) + 1
      /\ \A j \in 1 .. Len(stk) - 1 : stk2[j] = stk[j]
      /\ stk2[Len(stk)] = top
      /\ stk2[Len(stk) + 1] = child
  <2>1. stk \in Seq(Calls) /\ Len(stk) > 0 /\ top \in Calls /\ child \in Calls
    BY <1>1, <1>4
  <2>2. PushesOnTop(Pushed(stk, top, child), stk, top, child)
    BY <2>1, ReplaceTopAndPush
  <2> QED BY <2>2 DEF PushesOnTop
<1> HIDE DEF stk2
<1>10. PICK N \in Nat : N = Len(stk)
  BY <1>1
<1>11. stk2[1].path = <<>>
  <2>1. CASE N = 1
    BY <1>9, <1>10, <2>1 DEF CallsNest, TopOf
  <2>2. CASE N # 1
    BY <1>1, <1>9, <1>10, <2>2 DEF CallsNest
  <2> QED BY <2>1, <2>2
<1>12. ASSUME NEW j \in 1 .. N + 1
       PROVE  /\ IsCallOf(b, stk2[j])
              /\ j < N + 1 => IsUnderWay(b, stk2[j])
              /\ j > 1 => /\ stk2[j].path = Within(stk2[j - 1].path, stk2[j - 1].n, stk2[j - 1].within)
                          /\ IsIn(stk2[j].path, scopes2)
  <2>1. CASE j < N
    <3>1. stk2[j] = stk[j] /\ (j > 1 => stk2[j - 1] = stk[j - 1])
      BY <1>9, <1>10, <2>1
    <3> QED BY <1>10, <2>1, <3>1 DEF CallsNest
  <2>2. CASE j = N
    <3>1. stk2[j] = top /\ TopOf(stk) = stk[j] /\ (j > 1 => stk2[j - 1] = stk[j - 1])
      BY <1>9, <1>10, <2>2 DEF TopOf
    <3> QED BY <1>8, <1>10, <2>2, <3>1 DEF CallsNest
  <2>3. CASE j = N + 1
    <3>1. stk2[j] = child /\ stk2[j - 1] = top
      BY <1>9, <1>10, <2>3
    <3> QED BY <1>4, <1>7, <1>10, <2>3, <3>1
  <2> QED BY <2>1, <2>2, <2>3
<1>13. CallsNest(b, stk2, scopes2)
  BY <1>9, <1>10, <1>11, <1>12 DEF CallsNest
<1> QED BY <1>4, <1>5, <1>13 DEF stk2, child

(* The call at the top goes on to the next statement.                      *)
LEMMA ProceedKeepsNesting ==
  ASSUME NEW b, NEW stk, NEW scopes, CallsNest(b, stk, scopes),
         TopOf(stk).n <= Len(ListOf(b, TopOf(stk))),
         NEW top \in Calls, top.path = TopOf(stk).path, top.variable_scope = TopOf(stk).variable_scope,
         top.n = TopOf(stk).n + 1, top.within = 0
  PROVE  CallsNest(b, Replaced(stk, top), scopes)
<1> DEFINE stk2 == Replaced(stk, top)
<1>1. TopOf(stk) \in Calls /\ Len(stk) \in Nat \ {0} /\ stk \in Seq(Calls)
  BY TopIsCall DEF CallsNest
<1>2. IsCallOf(b, top)
  <2>1. ListOf(b, top) = ListOf(b, TopOf(stk)) /\ TopOf(stk).n \in Nat /\ Len(ListOf(b, TopOf(stk))) \in Nat
    BY <1>1, TopIsCall, StatementsAreTyped DEF ListOf, Calls
  <2> QED BY <2>1, TopIsCall DEF IsCallOf
<1>3. /\ stk2 \in Seq(Calls)
      /\ Len(stk2) = Len(stk)
      /\ \A j \in 1 .. Len(stk) - 1 : stk2[j] = stk[j]
      /\ stk2[Len(stk)] = top
  <2>1. stk \in Seq(Calls) /\ Len(stk) > 0 /\ top \in Calls
    BY <1>1
  <2>2. ReplacesTop(Replaced(stk, top), stk, top)
    BY <2>1, ReplaceTop
  <2> QED BY <2>2 DEF ReplacesTop
<1> HIDE DEF stk2
<1>4. PICK N \in Nat : N = Len(stk)
  BY <1>1
<1>5. stk2[1].path = <<>>
  <2>1. CASE N = 1
    BY <1>3, <1>4, <2>1 DEF CallsNest, TopOf
  <2>2. CASE N # 1
    BY <1>1, <1>3, <1>4, <2>2 DEF CallsNest
  <2> QED BY <2>1, <2>2
<1>6. ASSUME NEW j \in 1 .. N
      PROVE  /\ IsCallOf(b, stk2[j])
             /\ j < N => IsUnderWay(b, stk2[j])
             /\ j > 1 => /\ stk2[j].path = Within(stk2[j - 1].path, stk2[j - 1].n, stk2[j - 1].within)
                         /\ IsIn(stk2[j].path, scopes)
  <2>1. CASE j < N
    <3>1. stk2[j] = stk[j] /\ (j > 1 => stk2[j - 1] = stk[j - 1])
      BY <1>3, <1>4, <2>1
    <3> QED BY <1>4, <2>1, <3>1 DEF CallsNest
  <2>2. CASE j = N
    <3>1. stk2[j] = top /\ TopOf(stk) = stk[j] /\ (j > 1 => stk2[j - 1] = stk[j - 1])
      BY <1>3, <1>4, <2>2 DEF TopOf
    <3> QED BY <1>2, <1>4, <2>2, <3>1 DEF CallsNest
  <2> QED BY <2>1, <2>2
<1>7. CallsNest(b, stk2, scopes)
  BY <1>3, <1>4, <1>5, <1>6 DEF CallsNest
<1> QED BY <1>7 DEF stk2

(* The call at the top returns.                                            *)
LEMMA LeaveKeepsNesting ==
  ASSUME NEW b, NEW stk, NEW scopes, CallsNest(b, stk, scopes), Len(stk) > 1
  PROVE  /\ CallsNest(b, CallersOf(stk), scopes)
         /\ Len(CallersOf(stk)) = Len(stk) - 1
         /\ \A j \in 1 .. Len(stk) - 1 : CallersOf(stk)[j] = stk[j]
         /\ TopOf(CallersOf(stk)) = stk[Len(stk) - 1]
<1> DEFINE stk2 == CallersOf(stk)
<1>1. Len(stk) \in Nat \ {0} /\ stk \in Seq(Calls)
  BY TopIsCall DEF CallsNest
<1>2. /\ stk2 \in Seq(Calls)
      /\ Len(stk2) = Len(stk) - 1
      /\ \A j \in 1 .. Len(stk) - 1 : stk2[j] = stk[j]
  BY <1>1, CallersOfStack DEF CallersOf
<1> HIDE DEF stk2
<1>3. PICK N \in Nat : N = Len(stk)
  BY <1>1
<1>4. TopOf(stk2) = stk[N - 1] /\ stk2[1] = stk[1]
  BY <1>2, <1>3 DEF TopOf
<1>5. ASSUME NEW j \in 1 .. N - 1
      PROVE  /\ IsCallOf(b, stk2[j])
             /\ j < N - 1 => IsUnderWay(b, stk2[j])
             /\ j > 1 => /\ stk2[j].path = Within(stk2[j - 1].path, stk2[j - 1].n, stk2[j - 1].within)
                         /\ IsIn(stk2[j].path, scopes)
  <2>1. stk2[j] = stk[j] /\ (j > 1 => stk2[j - 1] = stk[j - 1])
    BY <1>2, <1>3
  <2> QED BY <1>3, <2>1 DEF CallsNest
<1>6. CallsNest(b, stk2, scopes)
  <2>1. Len(stk2) = N - 1 /\ N - 1 > 0 /\ stk2[1].path = <<>>
    BY <1>2, <1>3, <1>4 DEF CallsNest
  <2> QED BY <1>2, <1>5, <2>1 DEF CallsNest
<1> QED BY <1>2, <1>3, <1>4, <1>6 DEF stk2

(* A walk begins with one call, for the body.                              *)
LEMMA FirstCallNests ==
  ASSUME NEW b \in Bodies, NEW scopes
  PROVE  CallsNest(b, <<FirstCall>>, scopes)
<1> DEFINE call == FirstCall
<1>1. <<>> \in Paths
  BY DEF Paths
<1>2. call \in Calls /\ call.path = <<>> /\ call.variable_scope = <<>> /\ call.n = 1 /\ call.within = 0
  BY <1>1 DEF Call, Calls, FirstCall
<1> HIDE DEF call
<1>3. ListOf(b, call) = b /\ Len(b) \in Nat
  BY <1>2, StatementsAtRoot, StatementsAreTyped DEF ListOf
<1>4. IsCallOf(b, call)
  BY <1>2, <1>3 DEF IsCallOf
<1>5. <<call>> \in Seq(Calls) /\ Len(<<call>>) = 1 /\ <<call>>[1] = call
  BY <1>2
<1>6. CallsNest(b, <<call>>, scopes)
  BY <1>2, <1>4, <1>5 DEF CallsNest
<1> QED BY <1>6 DEF call

(***************************************************************************)
(* The order of a walk                                                     *)
(***************************************************************************)

(* Where a walk is: a call of it, and how many lists it entered.           *)
Positions == [path : Paths, n : Nat \ {0}, within : Nat, count : Nat]

PositionOf(call, count) ==
    [path |-> call.path, n |-> call.n, within |-> call.within, count |-> count]

FirstPosition == PositionOf(FirstCall, 0)

IsInList(b, p) == p.n <= Len(StatementsAt(b, p.path))
HasNextList(b, p) == p.within < BodyCount(StatementsAt(b, p.path)[p.n])

EntersList(b, scopes, p, q) ==
    /\ IsInList(b, p)
    /\ HasNextList(b, p)
    /\ q = [path |-> Within(p.path, p.n, p.within + 1), n |-> 1, within |-> 0, count |-> p.count + 1]
    /\ q.count <= Len(scopes)
    /\ scopes[q.count] = q.path

Proceeds(b, p, q) ==
    /\ IsInList(b, p)
    /\ ~ HasNextList(b, p)
    /\ q = [path |-> p.path, n |-> p.n + 1, within |-> 0, count |-> p.count]

LeavesTheList(b, p, q) ==
    /\ ~ IsInList(b, p)
    /\ p.path = Within(q.path, q.n, q.within)
    /\ q.count = p.count

(* The one step from p, when the k-th list entered is the k-th of scopes.  *)
Follows(b, scopes, p, q) ==
    \/ EntersList(b, scopes, p, q)
    \/ Proceeds(b, p, q)
    \/ LeavesTheList(b, p, q)

IsWalk(b, scopes, t, N) ==
    /\ t \in [0 .. N -> Positions]
    /\ t[0] = FirstPosition
    /\ \A i \in 0 .. N - 1 : Follows(b, scopes, t[i], t[i + 1])

IsLastPosition(b, p) == p.path = <<>> /\ ~ IsInList(b, p)

(* The first walk went from the beginning of the body to p.                *)
WalkedTo(b, scopes, p) ==
    \E N \in Nat : \E t \in [0 .. N -> Positions] :
        IsWalk(b, scopes, t, N) /\ t[N] = p

(* The second walk is at p, on the way that the first one went: a way      *)
(* through the whole body, that enters as many lists as there are scopes.  *)
WalksTo(b, scopes, p) ==
    \E N \in Nat : \E t \in [0 .. N -> Positions] :
        /\ IsWalk(b, scopes, t, N)
        /\ IsLastPosition(b, t[N])
        /\ t[N].count = Len(scopes)
        /\ \E i \in 0 .. N : t[i] = p

(* The position at the beginning of the body.                              *)
LEMMA FirstPositionIs ==
  /\ FirstPosition \in Positions
  /\ FirstPosition = [path |-> <<>>, n |-> 1, within |-> 0, count |-> 0]
<1>1. <<>> \in Paths
  BY DEF Paths
<1>2. FirstPosition = [path |-> <<>>, n |-> 1, within |-> 0, count |-> 0]
  BY DEF FirstPosition, PositionOf, Call, FirstCall
<1> QED BY <1>1, <1>2 DEF Positions

(* The position of a call.                                                 *)
LEMMA PositionsOfCalls ==
  ASSUME NEW call \in Calls, NEW count \in Nat
  PROVE  /\ PositionOf(call, count) \in Positions
         /\ PositionOf(call, count).path = call.path
         /\ PositionOf(call, count).n = call.n
         /\ PositionOf(call, count).within = call.within
         /\ PositionOf(call, count).count = count
BY DEF PositionOf, Positions, Calls

(* A walk that has not begun.                                              *)
LEMMA WalkBegins ==
  ASSUME NEW b, NEW scopes
  PROVE  WalkedTo(b, scopes, FirstPosition)
<1> DEFINE t == [i \in 0 .. 0 |-> FirstPosition]
<1>1. t \in [0 .. 0 -> Positions] /\ t[0] = FirstPosition
  BY FirstPositionIs
<1>2. \A i \in 0 .. 0 - 1 : Follows(b, scopes, t[i], t[i + 1])
  OBVIOUS
<1>3. IsWalk(b, scopes, t, 0)
  BY <1>1, <1>2 DEF IsWalk
<1> QED BY <1>1, <1>3 DEF WalkedTo

(* Scopes that are added at the end change no walk.                        *)
LEMMA WalkGoesOn ==
  ASSUME NEW b, NEW scopes, Len(scopes) \in Nat, NEW p, WalkedTo(b, scopes, p),
         NEW scopes2, Len(scopes2) \in Nat, Len(scopes) <= Len(scopes2),
         \A k \in 1 .. Len(scopes) : scopes2[k] = scopes[k],
         NEW q \in Positions, Follows(b, scopes2, p, q)
  PROVE  WalkedTo(b, scopes2, q)
<1>1. PICK N \in Nat : \E t \in [0 .. N -> Positions] : IsWalk(b, scopes, t, N) /\ t[N] = p
  BY DEF WalkedTo
<1>2. PICK t \in [0 .. N -> Positions] : IsWalk(b, scopes, t, N) /\ t[N] = p
  BY <1>1
<1> DEFINE t2 == [i \in 0 .. N + 1 |-> IF i <= N THEN t[i] ELSE q]
<1>3. t2 \in [0 .. N + 1 -> Positions]
  OBVIOUS
<1>4. t2[0] = FirstPosition /\ t2[N + 1] = q
  BY <1>2 DEF IsWalk
<1>5. ASSUME NEW i \in 0 .. (N + 1) - 1
      PROVE  Follows(b, scopes2, t2[i], t2[i + 1])
  <2>1. CASE i = N
    BY <1>2, <2>1
  <2>2. CASE i # N
    <3>1. i \in 0 .. N - 1 /\ t2[i] = t[i] /\ t2[i + 1] = t[i + 1]
      BY <2>2
    <3>2. Follows(b, scopes, t[i], t[i + 1])
      BY <1>2, <3>1 DEF IsWalk
    <3>3. t[i] \in Positions /\ t[i + 1] \in Positions
      BY <3>1
    <3>4. EntersList(b, scopes, t[i], t[i + 1]) => EntersList(b, scopes2, t[i], t[i + 1])
      <4>1. SUFFICES ASSUME EntersList(b, scopes, t[i], t[i + 1])
                     PROVE  EntersList(b, scopes2, t[i], t[i + 1])
        OBVIOUS
      <4>2. t[i + 1].count = t[i].count + 1 /\ t[i].count \in Nat
        BY <3>3, <4>1 DEF EntersList, Positions
      <4>3. t[i + 1].count \in 1 .. Len(scopes)
        BY <4>1, <4>2 DEF EntersList
      <4>4. t[i + 1].count <= Len(scopes2) /\ scopes2[t[i + 1].count] = t[i + 1].path
        BY <4>1, <4>3 DEF EntersList
      <4> QED BY <4>1, <4>4 DEF EntersList
    <3> QED BY <3>1, <3>2, <3>4 DEF Follows
  <2> QED BY <2>1, <2>2
<1> HIDE DEF t2
<1>6. IsWalk(b, scopes2, t2, N + 1)
  BY <1>3, <1>4, <1>5 DEF IsWalk
<1> QED BY <1>3, <1>4, <1>6 DEF WalkedTo

(* A walk through the whole body can be repeated.                          *)
LEMMA WalkIsRepeated ==
  ASSUME NEW b, NEW scopes, NEW p, WalkedTo(b, scopes, p), IsLastPosition(b, p), p.count = Len(scopes)
  PROVE  WalksTo(b, scopes, FirstPosition)
<1>1. PICK N \in Nat : \E t \in [0 .. N -> Positions] : IsWalk(b, scopes, t, N) /\ t[N] = p
  BY DEF WalkedTo
<1>2. PICK t \in [0 .. N -> Positions] : IsWalk(b, scopes, t, N) /\ t[N] = p
  BY <1>1
<1>3. 0 \in 0 .. N /\ t[0] = FirstPosition
  BY <1>2 DEF IsWalk
<1> QED BY <1>2, <1>3 DEF WalksTo

(* What was walked through once can be walked through again.               *)
LEMMA WalkStartsOver ==
  ASSUME NEW b, NEW scopes, NEW p, WalksTo(b, scopes, p)
  PROVE  WalksTo(b, scopes, FirstPosition)
<1>1. PICK N \in Nat : \E t \in [0 .. N -> Positions] :
                          /\ IsWalk(b, scopes, t, N)
                          /\ IsLastPosition(b, t[N])
                          /\ t[N].count = Len(scopes)
  BY DEF WalksTo
<1>2. PICK t \in [0 .. N -> Positions] :
              /\ IsWalk(b, scopes, t, N)
              /\ IsLastPosition(b, t[N])
              /\ t[N].count = Len(scopes)
  BY <1>1
<1>3. 0 \in 0 .. N /\ t[0] = FirstPosition
  BY <1>2 DEF IsWalk
<1> QED BY <1>2, <1>3 DEF WalksTo

(* Before its end the walk has a next step.                                *)
LEMMA WalkHasNext ==
  ASSUME NEW b, NEW scopes, NEW p, WalksTo(b, scopes, p), ~ IsLastPosition(b, p)
  PROVE  \E q \in Positions : Follows(b, scopes, p, q) /\ WalksTo(b, scopes, q)
<1>1. PICK N \in Nat : \E t \in [0 .. N -> Positions] :
                          /\ IsWalk(b, scopes, t, N)
                          /\ IsLastPosition(b, t[N])
                          /\ t[N].count = Len(scopes)
                          /\ \E i \in 0 .. N : t[i] = p
  BY DEF WalksTo
<1>2. PICK t \in [0 .. N -> Positions] :
              /\ IsWalk(b, scopes, t, N)
              /\ IsLastPosition(b, t[N])
              /\ t[N].count = Len(scopes)
              /\ \E i \in 0 .. N : t[i] = p
  BY <1>1
<1>3. PICK i \in 0 .. N : t[i] = p
  BY <1>2
<1>4. i # N
  BY <1>2, <1>3
<1>5. i \in 0 .. N - 1 /\ i + 1 \in 0 .. N
  BY <1>4
<1>6. t[i + 1] \in Positions
  BY <1>5
<1>7. Follows(b, scopes, p, t[i + 1])
  BY <1>2, <1>3, <1>5 DEF IsWalk
<1>8. WalksTo(b, scopes, t[i + 1])
  BY <1>2, <1>5 DEF WalksTo
<1> QED BY <1>6, <1>7, <1>8

(* At its end it entered as many lists as there are scopes.                *)
LEMMA WalkEnds ==
  ASSUME NEW b, NEW scopes, NEW p, WalksTo(b, scopes, p), IsLastPosition(b, p)
  PROVE  p.count = Len(scopes)
<1>1. PICK N \in Nat : \E t \in [0 .. N -> Positions] :
                          /\ IsWalk(b, scopes, t, N)
                          /\ IsLastPosition(b, t[N])
                          /\ t[N].count = Len(scopes)
                          /\ \E i \in 0 .. N : t[i] = p
  BY DEF WalksTo
<1>2. PICK t \in [0 .. N -> Positions] :
              /\ IsWalk(b, scopes, t, N)
              /\ IsLastPosition(b, t[N])
              /\ t[N].count = Len(scopes)
              /\ \E i \in 0 .. N : t[i] = p
  BY <1>1
<1>3. PICK i \in 0 .. N : t[i] = p
  BY <1>2
<1>4. SUFFICES ASSUME i # N PROVE FALSE
  BY <1>2, <1>3
<1>5. i \in 0 .. N - 1 /\ i + 1 \in 0 .. N
  BY <1>4
<1>6. Follows(b, scopes, p, t[i + 1]) /\ t[i + 1] \in Positions
  BY <1>2, <1>3, <1>5 DEF IsWalk
<1>7. LeavesTheList(b, p, t[i + 1])
  BY <1>6 DEF Follows, EntersList, Proceeds, IsLastPosition
<1>8. p.path = Within(t[i + 1].path, t[i + 1].n, t[i + 1].within) /\ p.path = <<>>
  BY <1>7 DEF LeavesTheList, IsLastPosition
<1>9. Within(t[i + 1].path, t[i + 1].n, t[i + 1].within) # <<>>
  BY <1>6, WithinIsPath DEF Positions
<1> QED BY <1>8, <1>9

(* When the second walk enters a list, it is the one of the next scope.    *)
LEMMA WalkEnters ==
  ASSUME NEW b, NEW scopes, NEW p \in Positions, WalksTo(b, scopes, p), IsInList(b, p), HasNextList(b, p)
  PROVE  LET path == Within(p.path, p.n, p.within + 1)
         IN  /\ p.count + 1 <= Len(scopes)
             /\ scopes[p.count + 1] = path
             /\ WalksTo(b, scopes, [path |-> path, n |-> 1, within |-> 0, count |-> p.count + 1])
<1>1. PICK q \in Positions : Follows(b, scopes, p, q) /\ WalksTo(b, scopes, q)
  BY WalkHasNext DEF IsLastPosition
<1>2. EntersList(b, scopes, p, q)
  BY <1>1 DEF Follows, Proceeds, LeavesTheList
<1> QED BY <1>1, <1>2 DEF EntersList

(* The second walk goes on to the next statement as the first one did.     *)
LEMMA WalkProceeds ==
  ASSUME NEW b, NEW scopes, NEW p \in Positions, WalksTo(b, scopes, p), IsInList(b, p), ~ HasNextList(b, p)
  PROVE  WalksTo(b, scopes, [path |-> p.path, n |-> p.n + 1, within |-> 0, count |-> p.count])
<1>1. PICK q \in Positions : Follows(b, scopes, p, q) /\ WalksTo(b, scopes, q)
  BY WalkHasNext DEF IsLastPosition
<1>2. Proceeds(b, p, q)
  BY <1>1 DEF Follows, EntersList, LeavesTheList
<1> QED BY <1>1, <1>2 DEF Proceeds

(* It leaves a list as the first one did.                                  *)
LEMMA WalkLeaves ==
  ASSUME NEW b, NEW scopes, NEW p \in Positions, WalksTo(b, scopes, p), ~ IsInList(b, p),
         NEW q \in Positions, p.path = Within(q.path, q.n, q.within), q.count = p.count
  PROVE  WalksTo(b, scopes, q)
<1>1. p.path # <<>>
  BY WithinIsPath DEF Positions
<1>2. PICK r \in Positions : Follows(b, scopes, p, r) /\ WalksTo(b, scopes, r)
  BY <1>1, WalkHasNext DEF IsLastPosition
<1>3. LeavesTheList(b, p, r)
  BY <1>2 DEF Follows, EntersList, Proceeds
<1>4. r.path = q.path /\ r.n = q.n /\ r.within = q.within /\ r.count = q.count
  <2>1. Within(r.path, r.n, r.within) = Within(q.path, q.n, q.within) /\ r.count = q.count
    BY <1>3 DEF LeavesTheList
  <2>2. /\ r.path \in Paths /\ r.n \in Nat /\ r.within \in Nat
        /\ q.path \in Paths /\ q.n \in Nat /\ q.within \in Nat
    BY DEF Positions
  <2>3. r.path = q.path /\ r.n = q.n /\ r.within = q.within
    BY <2>1, <2>2, WithinIsInjective
  <2> QED BY <2>1, <2>3
<1>5. r = q
  BY <1>4 DEF Positions
<1> QED BY <1>2, <1>5

(***************************************************************************)
(* Contexts and their blocks                                               *)
(***************************************************************************)

Points == Paths \X Nat \X Int

Instructions == [kind : {"other", "return", "branch", "jump"}, point : Points, targets : Seq(Nat)]

Entries == [block : Nat, instructions : Seq(Instructions)]

Contexts ==
    [next_child_scope_index : Nat, break_end_block : Nat, blocks : Seq(Entries),
     current_block : Nat, instructions : Seq(Instructions), block_count : Nat,
     assertion_failed : BOOLEAN]

IsOpen(c) == does_current_block_need_finisher(c)

EmittedBy(c) == {c.blocks[n].block : n \in 1 .. Len(c.blocks)}

(* The blocks that instructions may lead to, when those of pending are     *)
(* still to come.                                                          *)
Known(c, pending) == EmittedBy(c) \cup {c.current_block} \cup pending

LeadTo(instructions, blocks) ==
    \A i \in 1 .. Len(instructions) : \A k \in 1 .. Len(instructions[i].targets) :
        instructions[i].targets[k] \in blocks

TargetsKnown(c, pending) ==
    /\ LeadTo(c.instructions, Known(c, pending))
    /\ \A n \in 1 .. Len(c.blocks) : LeadTo(c.blocks[n].instructions, Known(c, pending))

(* Only the last instruction of a block is a terminator.                   *)
Unfinished(instructions) ==
    \A n \in 1 .. Len(instructions) :
        n < Len(instructions) => instructions[n].kind \notin Terminators

Sound(c) ==
    /\ Unfinished(c.instructions)
    /\ \A n \in 1 .. Len(c.blocks) : IsBasicBlock(c.blocks[n].instructions)

(* A for-loop of the body b ends by leaving it.                            *)
LeftFor(b, scopes) ==
    \E n \in 1 .. Len(scopes) :
        /\ StatementsAt(b, Enclosing(scopes[n]))[scopes[n][Len(scopes[n])][1]].kind = "for"
        /\ EndsByLeaving(StatementsAt(b, scopes[n]), {"return", "break"})

Good(b, scopes, c, pending) ==
    /\ c \in Contexts
    /\ ~ c.assertion_failed
    /\ TargetsKnown(c, pending)
    /\ LeftFor(b, scopes) \/ Sound(c)

(* The generator begins with an open block.                                *)
LEMMA NewIsGood ==
  ASSUME NEW b, NEW scopes, NEW pending
  PROVE  /\ NewContext \in Contexts
         /\ Good(b, scopes, NewContext, pending)
         /\ IsOpen(NewContext)
         /\ EmittedBy(NewContext) = {}
<1>1. NewContext \in Contexts
  BY DEF NewContext, Contexts
<1>2. NewContext.blocks = <<>> /\ NewContext.instructions = <<>> /\ ~ NewContext.assertion_failed
  BY DEF NewContext
<1>3. Len(NewContext.blocks) = 0 /\ Len(NewContext.instructions) = 0
  BY <1>2
<1>4. TargetsKnown(NewContext, pending) /\ Sound(NewContext) /\ EmittedBy(NewContext) = {}
  BY <1>3 DEF TargetsKnown, LeadTo, Sound, Unfinished, EmittedBy
<1> QED
  BY <1>1, <1>2, <1>4 DEF Good, IsOpen, does_current_block_need_finisher

(* The counters and the break target have no part in it.                   *)
LEMMA CountersDoNotMatter ==
  ASSUME NEW b, NEW scopes, NEW c, NEW pending, Good(b, scopes, c, pending),
         NEW d \in Contexts, d.blocks = c.blocks, d.instructions = c.instructions,
         d.current_block = c.current_block, d.assertion_failed = c.assertion_failed,
         NEW pending2, pending \subseteq pending2
  PROVE  /\ Good(b, scopes, d, pending2)
         /\ IsOpen(d) <=> IsOpen(c)
         /\ EmittedBy(d) = EmittedBy(c)
<1>1. EmittedBy(d) = EmittedBy(c)
  BY DEF EmittedBy
<1>2. Known(c, pending) \subseteq Known(d, pending2)
  BY <1>1 DEF Known
<1>3. TargetsKnown(d, pending2)
  BY <1>2 DEF Good, TargetsKnown, LeadTo
<1>4. Sound(c) => Sound(d)
  BY DEF Sound
<1>5. IsOpen(d) <=> IsOpen(c)
  BY DEF IsOpen, does_current_block_need_finisher
<1> QED BY <1>1, <1>3, <1>4, <1>5 DEF Good

(* An assert that holds changes nothing.                                   *)
LEMMA AssertThatHolds ==
  ASSUME NEW c \in Contexts, NEW holds \in BOOLEAN, holds
  PROVE  Assert(holds, c) = c
BY DEF Assert, Contexts

(* An instruction that leads to known blocks is emitted.                   *)
LEMMA EmitKeepsTargets ==
  ASSUME NEW c \in Contexts, NEW pending, TargetsKnown(c, pending),
         NEW i \in Instructions, LeadTo(<<i>>, Known(c, pending))
  PROVE  /\ Emit(c, i) \in Contexts
         /\ TargetsKnown(Emit(c, i), pending)
         /\ IsOpen(Emit(c, i)) <=> i.kind \notin Terminators
         /\ EmittedBy(Emit(c, i)) = EmittedBy(c)
         /\ Emit(c, i).blocks = c.blocks
         /\ Emit(c, i).current_block = c.current_block
         /\ Emit(c, i).block_count = c.block_count
         /\ Emit(c, i).break_end_block = c.break_end_block
         /\ Emit(c, i).next_child_scope_index = c.next_child_scope_index
         /\ Emit(c, i).assertion_failed = c.assertion_failed
         /\ Emit(c, i).instructions = Append(c.instructions, i)
<1> DEFINE d == Emit(c, i)
           s == Append(c.instructions, i)
<1>2. c.instructions \in Seq(Instructions)
  BY DEF Contexts
<1>3. /\ s \in Seq(Instructions)
      /\ Len(s) = Len(c.instructions) + 1
      /\ \A n \in 1 .. Len(c.instructions) : s[n] = c.instructions[n]
      /\ s[Len(s)] = i
      /\ s # <<>>
  BY <1>2
<1> HIDE DEF s
<1>4. /\ d \in Contexts
      /\ d.instructions = s
      /\ d.blocks = c.blocks
      /\ d.current_block = c.current_block
      /\ d.block_count = c.block_count
      /\ d.break_end_block = c.break_end_block
      /\ d.next_child_scope_index = c.next_child_scope_index
      /\ d.assertion_failed = c.assertion_failed
  <2>1. d = [c EXCEPT !.instructions = s]
    BY DEF Emit, s
  <2> QED BY <1>3, <2>1 DEF Contexts
<1> HIDE DEF d
<1>5. EmittedBy(d) = EmittedBy(c) /\ Known(d, pending) = Known(c, pending)
  BY <1>4 DEF EmittedBy, Known
<1>6. IsOpen(d) <=> i.kind \notin Terminators
  BY <1>3, <1>4 DEF IsOpen, does_current_block_need_finisher
<1>7. TargetsKnown(d, pending)
  <2>1. \A k \in 1 .. Len(i.targets) : i.targets[k] \in Known(c, pending)
    BY DEF LeadTo
  <2>2. ASSUME NEW n \in 1 .. Len(s)
        PROVE  \A k \in 1 .. Len(s[n].targets) : s[n].targets[k] \in Known(c, pending)
    <3>1. CASE n = Len(s)
      BY <1>3, <2>1, <3>1
    <3>2. CASE n # Len(s)
      <4>1. n \in 1 .. Len(c.instructions) /\ s[n] = c.instructions[n]
        BY <1>2, <1>3, <3>2
      <4> QED BY <4>1 DEF TargetsKnown, LeadTo
    <3> QED BY <3>1, <3>2
  <2> QED BY <1>4, <1>5, <2>2 DEF TargetsKnown, LeadTo
<1> QED BY <1>4, <1>5, <1>6, <1>7 DEF d, s

(* It goes to the end of an open block.                                    *)
LEMMA EmitStaysGood ==
  ASSUME NEW b, NEW scopes, NEW c, NEW pending, Good(b, scopes, c, pending),
         NEW i \in Instructions, LeadTo(<<i>>, Known(c, pending)),
         LeftFor(b, scopes) \/ IsOpen(c)
  PROVE  /\ Good(b, scopes, Emit(c, i), pending)
         /\ IsOpen(Emit(c, i)) <=> i.kind \notin Terminators
         /\ Emit(c, i).instructions # <<>>
         /\ EmittedBy(Emit(c, i)) = EmittedBy(c)
         /\ Emit(c, i).blocks = c.blocks
         /\ Emit(c, i).current_block = c.current_block
         /\ Emit(c, i).block_count = c.block_count
         /\ Emit(c, i).break_end_block = c.break_end_block
         /\ Emit(c, i).next_child_scope_index = c.next_child_scope_index
<1> DEFINE d == Emit(c, i)
           s == Append(c.instructions, i)
<1>1. c \in Contexts /\ ~ c.assertion_failed /\ TargetsKnown(c, pending)
  BY DEF Good
<1>2. c.instructions \in Seq(Instructions)
  BY <1>1 DEF Contexts
<1>3. /\ Len(s) = Len(c.instructions) + 1
      /\ \A n \in 1 .. Len(c.instructions) : s[n] = c.instructions[n]
      /\ s # <<>>
  BY <1>2
<1>4. /\ d \in Contexts
      /\ TargetsKnown(d, pending)
      /\ d.instructions = s
      /\ d.blocks = c.blocks
      /\ d.current_block = c.current_block
      /\ d.block_count = c.block_count
      /\ d.break_end_block = c.break_end_block
      /\ d.next_child_scope_index = c.next_child_scope_index
      /\ d.assertion_failed = c.assertion_failed
  BY <1>1, EmitKeepsTargets
<1>5. EmittedBy(d) = EmittedBy(c) /\ (IsOpen(d) <=> i.kind \notin Terminators)
  BY <1>1, EmitKeepsTargets
<1> HIDE DEF d, s
<1>8. ASSUME Sound(c), IsOpen(c)
      PROVE  Sound(d)
  <2>1. ASSUME NEW n \in 1 .. Len(s), n < Len(s)
        PROVE  s[n].kind \notin Terminators
    <3>1. n \in 1 .. Len(c.instructions) /\ s[n] = c.instructions[n] /\ Len(c.instructions) \in Nat
      BY <1>2, <1>3, <2>1
    <3>2. CASE n = Len(c.instructions)
      <4>1. c.instructions # <<>>
        BY <3>1
      <4> QED
        BY <1>8, <3>1, <3>2, <4>1 DEF IsOpen, does_current_block_need_finisher
    <3>3. CASE n < Len(c.instructions)
      BY <1>8, <3>1, <3>3 DEF Sound, Unfinished
    <3> QED BY <3>1, <3>2, <3>3
  <2> QED BY <1>4, <1>8, <2>1 DEF Sound, Unfinished
<1>9. Good(b, scopes, d, pending)
  BY <1>1, <1>4, <1>8 DEF Good
<1> QED BY <1>3, <1>4, <1>5, <1>9 DEF d

(* An open block ends with a jump, any other stays as it is.               *)
LEMMA FinishStaysGood ==
  ASSUME NEW b, NEW scopes, NEW c, NEW pending, Good(b, scopes, c, pending),
         NEW block \in Nat, block \in Known(c, pending)
  PROVE  LET d == FinishWithJump(c, block)
         IN  /\ Good(b, scopes, d, pending)
             /\ ~ IsOpen(d)
             /\ EmittedBy(d) = EmittedBy(c)
             /\ d.blocks = c.blocks
             /\ d.current_block = c.current_block
             /\ d.block_count = c.block_count
             /\ d.break_end_block = c.break_end_block
             /\ d.next_child_scope_index = c.next_child_scope_index
<1>1. CASE IsOpen(c)
  <2> DEFINE i == Jump(block)
  <2>0. <<>> \in Paths
    BY DEF Paths
  <2>1. End \in Points
    BY <2>0 DEF End, Point, Points
  <2>2. i \in Instructions /\ i.kind = "jump" /\ i.targets = <<block>>
    BY <2>1 DEF Jump, Instruction, Instructions
  <2>3. FinishWithJump(c, block) = Emit(c, i)
    BY <1>1 DEF FinishWithJump, IsOpen
  <2> HIDE DEF i
  <2>4. LeadTo(<<i>>, Known(c, pending))
    BY <2>2 DEF LeadTo
  <2>5. i.kind \in Terminators
    BY <2>2 DEF Terminators
  <2> QED BY <1>1, <2>2, <2>3, <2>4, <2>5, EmitStaysGood
<1>2. CASE ~ IsOpen(c)
  BY <1>2 DEF FinishWithJump, IsOpen
<1> QED BY <1>1, <1>2

(* A block that is not open has one terminator, at its end.                *)
LEMMA FinishedIsBasic ==
  ASSUME NEW c \in Contexts, Unfinished(c.instructions), ~ IsOpen(c)
  PROVE  IsBasicBlock(c.instructions)
<1>1. c.instructions \in Seq(Instructions) /\ Len(c.instructions) \in Nat
  BY DEF Contexts
<1>2. c.instructions # <<>> /\ c.instructions[Len(c.instructions)].kind \in Terminators
  BY DEF IsOpen, does_current_block_need_finisher
<1>3. \A n \in 1 .. Len(c.instructions) : c.instructions[n].kind \in Terminators <=> n = Len(c.instructions)
  BY <1>1, <1>2 DEF Unfinished
<1> QED BY <1>1, <1>2, <1>3 DEF IsBasicBlock

(* The blocks, with the current one.                                       *)
LEMMA FinishedBlocks ==
  ASSUME NEW c \in Contexts
  PROVE  /\ Finished(c) \in Seq(Entries)
         /\ Len(Finished(c)) = Len(c.blocks) + 1
         /\ \A n \in 1 .. Len(c.blocks) : Finished(c)[n] = c.blocks[n]
         /\ Finished(c)[Len(c.blocks) + 1] = [block |-> c.current_block, instructions |-> c.instructions]
         /\ Len(c.blocks) \in Nat
<1>1. c.blocks \in Seq(Entries) /\ c.current_block \in Nat /\ c.instructions \in Seq(Instructions)
  BY DEF Contexts
<1> DEFINE entry == [block |-> c.current_block, instructions |-> c.instructions]
<1>2. entry \in Entries
  BY <1>1 DEF Entries
<1> HIDE DEF entry
<1>3. /\ Append(c.blocks, entry) \in Seq(Entries)
      /\ Len(Append(c.blocks, entry)) = Len(c.blocks) + 1
      /\ \A n \in 1 .. Len(c.blocks) : Append(c.blocks, entry)[n] = c.blocks[n]
      /\ Append(c.blocks, entry)[Len(c.blocks) + 1] = entry
      /\ Len(c.blocks) \in Nat
  BY <1>1, <1>2
<1> QED BY <1>3 DEF Finished, entry

(* The block of c is done, and the next one, which was pending, begins in  *)
(* d.                                                                      *)
Settles(pending, pending2, block) == pending \subseteq pending2 \cup {block}

BeginsBlock(b, scopes, c, block, pending2, d) ==
    /\ Good(b, scopes, d, pending2)
    /\ IsOpen(d)
    /\ EmittedBy(d) = EmittedBy(c) \cup {c.current_block}
    /\ d.current_block = block
    /\ d.block_count = c.block_count
    /\ d.break_end_block = c.break_end_block
    /\ d.next_child_scope_index = c.next_child_scope_index

(* A finished block is left for the next one, which was pending.           *)
LEMMA ChangeStaysGood ==
  ASSUME NEW b, NEW scopes, NEW c, NEW pending, Good(b, scopes, c, pending), ~ IsOpen(c),
         NEW block \in Nat, NEW pending2, Settles(pending, pending2, block)
  PROVE  BeginsBlock(b, scopes, c, block, pending2, change_block(c, block))
<1> DEFINE d == change_block(c, block)
           blocks == Finished(c)
<1>1. c \in Contexts /\ ~ c.assertion_failed
  BY DEF Good
<1>2. /\ blocks \in Seq(Entries)
      /\ Len(blocks) = Len(c.blocks) + 1
      /\ \A n \in 1 .. Len(c.blocks) : blocks[n] = c.blocks[n]
      /\ blocks[Len(c.blocks) + 1] = [block |-> c.current_block, instructions |-> c.instructions]
      /\ Len(c.blocks) \in Nat
  BY <1>1, FinishedBlocks
<1> HIDE DEF blocks
<1>3. /\ d \in Contexts
      /\ d.instructions = <<>>
      /\ d.blocks = blocks
      /\ d.current_block = block
      /\ d.block_count = c.block_count
      /\ d.break_end_block = c.break_end_block
      /\ d.next_child_scope_index = c.next_child_scope_index
      /\ ~ d.assertion_failed
  <2>1. Assert(~ does_current_block_need_finisher(c), c) = c
    BY <1>1, AssertThatHolds DEF IsOpen
  <2>2. d = [c EXCEPT !.blocks = blocks, !.current_block = block, !.instructions = <<>>]
    BY <2>1 DEF change_block, StartBlock, blocks
  <2>3. <<>> \in Seq(Instructions)
    OBVIOUS
  <2>4. blocks \in Seq(Entries)
    BY <1>2
  <2> HIDE DEF d
  <2>5. d \in Contexts
    BY <1>1, <2>2, <2>3, <2>4 DEF Contexts
  <2>6. /\ d.instructions = <<>>
        /\ d.blocks = blocks
        /\ d.current_block = block
        /\ d.assertion_failed = c.assertion_failed
    BY <1>1, <2>2 DEF Contexts
  <2>7. /\ d.block_count = c.block_count
        /\ d.break_end_block = c.break_end_block
        /\ d.next_child_scope_index = c.next_child_scope_index
    BY <1>1, <2>2 DEF Contexts
  <2> QED BY <1>1, <2>5, <2>6, <2>7
<1> HIDE DEF d
<1>4. EmittedBy(d) = EmittedBy(c) \cup {c.current_block}
  <2>1. ASSUME NEW x
        PROVE  x \in EmittedBy(d) <=> x \in EmittedBy(c) \/ x = c.current_block
    <3>1. ASSUME x \in EmittedBy(d)
          PROVE  x \in EmittedBy(c) \/ x = c.current_block
      <4>1. PICK n \in 1 .. Len(blocks) : x = blocks[n].block
        BY <1>3, <3>1 DEF EmittedBy
      <4>2. CASE n = Len(c.blocks) + 1
        BY <1>2, <4>1, <4>2
      <4>3. CASE n # Len(c.blocks) + 1
        BY <1>2, <4>1, <4>3 DEF EmittedBy
      <4> QED BY <4>2, <4>3
    <3>2. ASSUME x \in EmittedBy(c)
          PROVE  x \in EmittedBy(d)
      <4>1. PICK n \in 1 .. Len(c.blocks) : x = c.blocks[n].block
        BY <3>2 DEF EmittedBy
      <4>2. n \in 1 .. Len(blocks) /\ x = blocks[n].block
        BY <1>2, <4>1
      <4> QED BY <1>3, <4>2 DEF EmittedBy
    <3>3. c.current_block \in EmittedBy(d)
      <4>1. Len(c.blocks) + 1 \in 1 .. Len(blocks) /\ blocks[Len(c.blocks) + 1].block = c.current_block
        BY <1>2
      <4> QED BY <1>3, <4>1 DEF EmittedBy
    <3> QED BY <3>1, <3>2, <3>3
  <2> QED BY <2>1
<1>5. Known(c, pending) \subseteq Known(d, pending2)
  BY <1>3, <1>4 DEF Known, Settles
<1>6. TargetsKnown(d, pending2)
  <2>1. ASSUME NEW n \in 1 .. Len(blocks)
        PROVE  LeadTo(blocks[n].instructions, Known(d, pending2))
    <3>1. CASE n = Len(c.blocks) + 1
      <4>1. blocks[n].instructions = c.instructions
        BY <1>2, <3>1
      <4> QED BY <1>5, <4>1 DEF Good, TargetsKnown, LeadTo
    <3>2. CASE n # Len(c.blocks) + 1
      <4>1. n \in 1 .. Len(c.blocks) /\ blocks[n].instructions = c.blocks[n].instructions
        BY <1>2, <3>2
      <4> QED BY <1>5, <4>1 DEF Good, TargetsKnown, LeadTo
    <3> QED BY <3>1, <3>2
  <2>2. LeadTo(d.instructions, Known(d, pending2))
    BY <1>3 DEF LeadTo
  <2> QED BY <1>3, <2>1, <2>2 DEF TargetsKnown
<1>7. Sound(c) => Sound(d)
  <2>1. SUFFICES ASSUME Sound(c) PROVE Sound(d)
    OBVIOUS
  <2>2. IsBasicBlock(c.instructions)
    BY <1>1, <2>1, FinishedIsBasic DEF Sound
  <2>3. ASSUME NEW n \in 1 .. Len(blocks)
        PROVE  IsBasicBlock(blocks[n].instructions)
    <3>1. CASE n = Len(c.blocks) + 1
      <4>1. blocks[n].instructions = c.instructions
        BY <1>2, <3>1
      <4> QED BY <2>2, <4>1
    <3>2. CASE n # Len(c.blocks) + 1
      <4>1. n \in 1 .. Len(c.blocks) /\ blocks[n].instructions = c.blocks[n].instructions
        BY <1>2, <3>2
      <4> QED BY <2>1, <4>1 DEF Sound
    <3> QED BY <3>1, <3>2
  <2>4. Unfinished(d.instructions)
    BY <1>3 DEF Unfinished
  <2> QED BY <1>3, <2>3, <2>4 DEF Sound
<1>8. IsOpen(d)
  BY <1>3 DEF IsOpen, does_current_block_need_finisher
<1>9. Good(b, scopes, d, pending2)
  BY <1>3, <1>6, <1>7 DEF Good
<1> QED BY <1>3, <1>4, <1>8, <1>9 DEF d, BeginsBlock

(***************************************************************************)
(* What the calls of the generator know of the blocks                      *)
(***************************************************************************)

Leaving == {"return", "break"}

(* The statements before the n-th end by leaving the list.                 *)
HasLeft(list, n, kinds) ==
    \E m \in 1 .. n - 1 :
        /\ list[m].kind \in kinds
        /\ \A d \in m + 1 .. n - 1 : list[d].kind = "declaration"

(* The blocks that are emitted once the call goes on.                      *)
PendingOf(b, call) ==
    IF call.within = 0 THEN {}
    ELSE IF StatementOf(b, call).kind = "if" /\ call.within <= Conditions(StatementOf(b, call))
           THEN {call.end_block, call.next_block}
           ELSE {call.end_block}

PendingOfFirst(b, stk, m) ==
    {x \in Nat : \E j \in 1 .. m : x \in PendingOf(b, stk[j])}

Pending(b, stk) == PendingOfFirst(b, stk, Len(stk))

LoopCall(b, call) == call.within > 0 /\ IsLoop(StatementOf(b, call))

(* A target of break: the end of a loop that is under way in one of the    *)
(* first m calls, or none.                                                 *)
EndsLoop(b, stk, m, block) ==
    \/ block = 0
    \/ \E i \in 1 .. m : LoopCall(b, stk[i]) /\ block = stk[i].end_block

LoopIsKnown(b, stk, j, call, emitted) ==
    LoopCall(b, call) =>
        /\ call.condition_block \in emitted
        /\ EndsLoop(b, stk, j - 1, call.old_break_end_block)

(* The blocks a call still has to emit were allocated; the last condition  *)
(* of an if without an else leads to its end.                              *)
BranchesLead(b, call) ==
    /\ 0 \notin PendingOf(b, call)
    /\ /\ call.within > 0
       /\ StatementOf(b, call).kind = "if"
       /\ ~ HasElse(StatementOf(b, call))
       /\ call.within = Conditions(StatementOf(b, call))
       => call.next_block = call.end_block

(* The rest of a list is unreachable only after it was left, the rest of   *)
(* the body only after a return.                                           *)
LeftRightly(b, call, is_first) ==
    /\ call.unreachable =>
         /\ call.within = 0
         /\ HasLeft(ListOf(b, call), call.n, IF is_first THEN {"return"} ELSE Leaving)
    /\ is_first /\ call.within = 0 /\ call.n > 1 /\ ListOf(b, call)[call.n - 1].kind = "return"
         => call.unreachable

StackFacts(b, stk, c) ==
    /\ \A j \in 1 .. Len(stk) :
          /\ LoopIsKnown(b, stk, j, stk[j], EmittedBy(c))
          /\ BranchesLead(b, stk[j])
          /\ j # Len(stk) => ~ stk[j].unreachable
    /\ EndsLoop(b, stk, Len(stk), c.break_end_block)
    /\ LeftRightly(b, TopOf(stk), Len(stk) = 1)

(* The current block is open, but after the list at the top was left, or   *)
(* the one that the top has just called itself for.                        *)
OpenOrLeft(b, stk, scopes, c) ==
    LET top == TopOf(stk)
        path == Within(top.path, top.n, top.within)
    IN  /\ top.within = 0 => (IsOpen(c) <=> ~ top.unreachable)
        /\ top.within > 0 =>
             \/ IsOpen(c)
             \/ EndsByLeaving(StatementsAt(b, path), Leaving) /\ IsIn(path, scopes)

(* The first calls alone say what is pending for them.                     *)
LEMMA FewerCallsPend ==
  ASSUME NEW b, NEW stk \in Seq(Calls), NEW stk2 \in Seq(Calls), NEW m \in Nat,
         \A j \in 1 .. m : stk2[j] = stk[j]
  PROVE  /\ PendingOfFirst(b, stk2, m) = PendingOfFirst(b, stk, m)
         /\ \A block : EndsLoop(b, stk2, m, block) <=> EndsLoop(b, stk, m, block)
BY DEF PendingOfFirst, EndsLoop

(* What a single call has pending.                                         *)
LEMMA PendingBlocks ==
  ASSUME NEW b, NEW call \in Calls
  PROVE  /\ PendingOf(b, call) \subseteq Nat
         /\ call.within = 0 => PendingOf(b, call) = {}
         /\ call.within > 0 => call.end_block \in PendingOf(b, call)
         /\ call.within > 0 /\ StatementOf(b, call).kind # "if" => PendingOf(b, call) = {call.end_block}
BY DEF PendingOf, Calls

(* What one call more adds to the blocks and to the loops.                 *)
OneCallMore(b, stk, m) ==
    /\ PendingOfFirst(b, stk, m + 1) = PendingOfFirst(b, stk, m) \cup PendingOf(b, stk[m + 1])
    /\ \A block : EndsLoop(b, stk, m + 1, block) <=>
                     \/ EndsLoop(b, stk, m, block)
                     \/ LoopCall(b, stk[m + 1]) /\ block = stk[m + 1].end_block

(* It adds them.                                                           *)
LEMMA PendingOfNext ==
  ASSUME NEW b, NEW stk \in Seq(Calls), NEW m \in Nat, m < Len(stk)
  PROVE  OneCallMore(b, stk, m)
<1>1. stk[m + 1] \in Calls
  <2>1. m + 1 \in 1 .. Len(stk)
    OBVIOUS
  <2> QED BY <2>1
<1>2. PendingOf(b, stk[m + 1]) \subseteq Nat
  BY <1>1, PendingBlocks
<1>3. \A j \in 1 .. m + 1 : j \in 1 .. m \/ j = m + 1
  OBVIOUS
<1>4. 1 .. m \subseteq 1 .. m + 1 /\ m + 1 \in 1 .. m + 1
  OBVIOUS
<1>5. PendingOfFirst(b, stk, m + 1) = PendingOfFirst(b, stk, m) \cup PendingOf(b, stk[m + 1])
  BY <1>2, <1>3, <1>4 DEF PendingOfFirst
<1>6. ASSUME NEW block
      PROVE  EndsLoop(b, stk, m + 1, block) <=>
                \/ EndsLoop(b, stk, m, block)
                \/ LoopCall(b, stk[m + 1]) /\ block = stk[m + 1].end_block
  BY <1>3, <1>4 DEF EndsLoop
<1> QED BY <1>5, <1>6 DEF OneCallMore

(* What is pending is pending because of the callers or of the top.        *)
LEMMA PendingIs ==
  ASSUME NEW b, NEW stk \in Seq(Calls), Len(stk) > 0
  PROVE  /\ Pending(b, stk) = PendingOfFirst(b, stk, Len(stk) - 1) \cup PendingOf(b, TopOf(stk))
         /\ \A block : EndsLoop(b, stk, Len(stk), block) <=>
                          \/ EndsLoop(b, stk, Len(stk) - 1, block)
                          \/ LoopCall(b, TopOf(stk)) /\ block = TopOf(stk).end_block
<1>1. PICK m \in Nat : Len(stk) = m + 1
  <2>1. Len(stk) - 1 \in Nat /\ Len(stk) = (Len(stk) - 1) + 1
    OBVIOUS
  <2> QED BY <2>1
<1>2. m < Len(stk) /\ TopOf(stk) = stk[m + 1] /\ Len(stk) - 1 = m
  BY <1>1 DEF TopOf
<1>3. OneCallMore(b, stk, m)
  BY <1>2, PendingOfNext
<1> QED BY <1>1, <1>2, <1>3 DEF OneCallMore, Pending

(* The k-th list of the statement at the top is entered.                   *)
LEMMA EnterKeepsFacts ==
  ASSUME NEW b, NEW stk, NEW scopes, CallsNest(b, stk, scopes), NEW c, StackFacts(b, stk, c),
         NEW top \in Calls, top.within > 0, ~ top.unreachable,
         NEW child \in Calls, child.within = 0, child.n = 1, ~ child.unreachable,
         NEW d, EmittedBy(c) \subseteq EmittedBy(d),
         LoopIsKnown(b, stk, Len(stk), top, EmittedBy(d)),
         BranchesLead(b, top),
         \/ EndsLoop(b, stk, Len(stk) - 1, d.break_end_block)
         \/ LoopCall(b, top) /\ d.break_end_block = top.end_block
  PROVE  /\ StackFacts(b, Pushed(stk, top, child), d)
         /\ Pending(b, Pushed(stk, top, child)) =
              PendingOfFirst(b, stk, Len(stk) - 1) \cup PendingOf(b, top)
<1> DEFINE stk2 == Pushed(stk, top, child)
<1>1. stk \in Seq(Calls) /\ Len(stk) > 0
  BY DEF CallsNest
<1>2. PushesOnTop(stk2, stk, top, child)
  BY <1>1, ReplaceTopAndPush
<1> HIDE DEF stk2
<1>3. PICK m \in Nat : Len(stk) = m + 1
  <2>1. Len(stk) - 1 \in Nat /\ Len(stk) = (Len(stk) - 1) + 1
    BY <1>1
  <2> QED BY <2>1
<1>4. /\ stk2 \in Seq(Calls)
      /\ Len(stk2) = m + 2
      /\ \A j \in 1 .. m : stk2[j] = stk[j]
      /\ stk2[m + 1] = top
      /\ stk2[m + 2] = child
      /\ TopOf(stk2) = child
  BY <1>2, <1>3 DEF PushesOnTop, TopOf
<1>5. \A i \in 0 .. m : \A block : EndsLoop(b, stk2, i, block) <=> EndsLoop(b, stk, i, block)
  BY <1>4 DEF EndsLoop
<1>6. /\ PendingOfFirst(b, stk2, m) = PendingOfFirst(b, stk, m)
      /\ \A block : EndsLoop(b, stk2, m, block) <=> EndsLoop(b, stk, m, block)
  BY <1>1, <1>4, FewerCallsPend
<1>7. /\ PendingOfFirst(b, stk2, m + 1) = PendingOfFirst(b, stk, m) \cup PendingOf(b, top)
      /\ \A block : EndsLoop(b, stk2, m + 1, block) <=>
                       \/ EndsLoop(b, stk, m, block)
                       \/ LoopCall(b, top) /\ block = top.end_block
  <2>1. m < Len(stk2) /\ stk2 \in Seq(Calls)
    BY <1>4
  <2>2. OneCallMore(b, stk2, m)
    BY <2>1, PendingOfNext
  <2> QED BY <1>4, <1>6, <2>2 DEF OneCallMore
<1>8. /\ Pending(b, stk2) = PendingOfFirst(b, stk2, m + 1)
      /\ \A block : EndsLoop(b, stk2, m + 1, block) => EndsLoop(b, stk2, Len(stk2), block)
  <2>1. Len(stk2) > 0 /\ Len(stk2) - 1 = m + 1
    BY <1>4
  <2>2. PendingOf(b, TopOf(stk2)) = {}
    BY <1>4 DEF PendingOf
  <2>3. Pending(b, stk2) = PendingOfFirst(b, stk2, m + 1) \cup PendingOf(b, TopOf(stk2))
    BY <1>4, <2>1, PendingIs
  <2> QED BY <1>4, <2>1, <2>2, <2>3, PendingIs
<1>9. EndsLoop(b, stk2, Len(stk2), d.break_end_block)
  <2>1. Len(stk) - 1 = m
    BY <1>3
  <2> QED BY <1>7, <1>8, <2>1
<1>10. ASSUME NEW j \in 1 .. m + 2
       PROVE  /\ LoopIsKnown(b, stk2, j, stk2[j], EmittedBy(d))
              /\ BranchesLead(b, stk2[j])
              /\ j # m + 2 => ~ stk2[j].unreachable
  <2>1. CASE j <= m
    <3>1. stk2[j] = stk[j] /\ j \in 1 .. Len(stk) /\ j # Len(stk) /\ j - 1 \in 0 .. m
      BY <1>3, <1>4, <2>1
    <3>2. /\ LoopIsKnown(b, stk, j, stk[j], EmittedBy(c))
          /\ BranchesLead(b, stk[j])
          /\ ~ stk[j].unreachable
      BY <3>1 DEF StackFacts
    <3>3. LoopIsKnown(b, stk2, j, stk[j], EmittedBy(d))
      BY <1>5, <3>1, <3>2 DEF LoopIsKnown
    <3> QED BY <3>1, <3>2, <3>3
  <2>2. CASE j = m + 1
    <3>1. j - 1 = m /\ Len(stk) - 1 = m
      BY <1>3, <2>2
    <3>2. LoopIsKnown(b, stk2, j, top, EmittedBy(d))
      BY <1>6, <3>1 DEF LoopIsKnown
    <3> QED BY <1>4, <2>2, <3>2
  <2>3. CASE j = m + 2
    BY <1>4, <2>3 DEF LoopIsKnown, LoopCall, BranchesLead, PendingOf
  <2> QED BY <2>1, <2>2, <2>3
<1>11. LeftRightly(b, TopOf(stk2), Len(stk2) = 1)
  BY <1>4 DEF LeftRightly
<1>12. StackFacts(b, stk2, d)
  BY <1>4, <1>9, <1>10, <1>11 DEF StackFacts
<1>13. Pending(b, stk2) = PendingOfFirst(b, stk, Len(stk) - 1) \cup PendingOf(b, top)
  BY <1>3, <1>7, <1>8
<1> QED BY <1>12, <1>13 DEF stk2

(* The call at the top goes on to its next statement.                      *)
LEMMA ProceedKeepsFacts ==
  ASSUME NEW b, NEW stk, NEW scopes, CallsNest(b, stk, scopes), NEW c, StackFacts(b, stk, c),
         NEW top \in Calls, top.within = 0,
         LeftRightly(b, top, Len(stk) = 1),
         NEW d, EmittedBy(c) \subseteq EmittedBy(d),
         EndsLoop(b, stk, Len(stk) - 1, d.break_end_block)
  PROVE  /\ StackFacts(b, Replaced(stk, top), d)
         /\ Pending(b, Replaced(stk, top)) = PendingOfFirst(b, stk, Len(stk) - 1)
         /\ TopOf(Replaced(stk, top)) = top
<1> DEFINE stk2 == Replaced(stk, top)
<1>1. stk \in Seq(Calls) /\ Len(stk) > 0
  BY DEF CallsNest
<1>2. ReplacesTop(stk2, stk, top)
  BY <1>1, ReplaceTop
<1> HIDE DEF stk2
<1>3. PICK m \in Nat : Len(stk) = m + 1
  <2>1. Len(stk) - 1 \in Nat /\ Len(stk) = (Len(stk) - 1) + 1
    BY <1>1
  <2> QED BY <2>1
<1>4. /\ stk2 \in Seq(Calls)
      /\ Len(stk2) = m + 1
      /\ \A j \in 1 .. m : stk2[j] = stk[j]
      /\ stk2[m + 1] = top
      /\ TopOf(stk2) = top
      /\ Len(stk) - 1 = m
  BY <1>2, <1>3 DEF ReplacesTop, TopOf
<1>5. \A i \in 0 .. m : \A block : EndsLoop(b, stk2, i, block) <=> EndsLoop(b, stk, i, block)
  BY <1>4 DEF EndsLoop
<1>6. PendingOfFirst(b, stk2, m) = PendingOfFirst(b, stk, m)
  BY <1>1, <1>4, FewerCallsPend
<1>7. Pending(b, stk2) = PendingOfFirst(b, stk, m)
  <2>1. Len(stk2) > 0 /\ Len(stk2) - 1 = m
    BY <1>4
  <2>2. PendingOf(b, TopOf(stk2)) = {}
    BY <1>4 DEF PendingOf
  <2>3. Pending(b, stk2) = PendingOfFirst(b, stk2, m) \cup PendingOf(b, TopOf(stk2))
    BY <1>4, <2>1, PendingIs
  <2> QED BY <1>6, <2>2, <2>3
<1>8. EndsLoop(b, stk2, Len(stk2), d.break_end_block)
  <2>1. Len(stk2) > 0 /\ Len(stk2) - 1 = m /\ m \in 0 .. m
    BY <1>4
  <2>2. EndsLoop(b, stk2, m, d.break_end_block)
    BY <1>4, <1>5, <2>1
  <2> QED BY <1>4, <2>1, <2>2, PendingIs
<1>9. ASSUME NEW j \in 1 .. m + 1
      PROVE  /\ LoopIsKnown(b, stk2, j, stk2[j], EmittedBy(d))
             /\ BranchesLead(b, stk2[j])
             /\ j # m + 1 => ~ stk2[j].unreachable
  <2>1. CASE j <= m
    <3>1. stk2[j] = stk[j] /\ j \in 1 .. Len(stk) /\ j # Len(stk) /\ j - 1 \in 0 .. m
      BY <1>3, <1>4, <2>1
    <3>2. /\ LoopIsKnown(b, stk, j, stk[j], EmittedBy(c))
          /\ BranchesLead(b, stk[j])
          /\ ~ stk[j].unreachable
      BY <3>1 DEF StackFacts
    <3>3. LoopIsKnown(b, stk2, j, stk[j], EmittedBy(d))
      BY <1>5, <3>1, <3>2 DEF LoopIsKnown
    <3> QED BY <3>1, <3>2, <3>3
  <2>2. CASE j = m + 1
    BY <1>4, <2>2 DEF LoopIsKnown, LoopCall, BranchesLead, PendingOf
  <2> QED BY <2>1, <2>2
<1>10. LeftRightly(b, TopOf(stk2), Len(stk2) = 1)
  BY <1>3, <1>4
<1>11. StackFacts(b, stk2, d)
  BY <1>4, <1>8, <1>9, <1>10 DEF StackFacts
<1> QED BY <1>4, <1>7, <1>11 DEF stk2

(* The call at the top returns from the end of its list.                   *)
LEMMA LeaveKeepsFacts ==
  ASSUME NEW b, NEW stk, NEW scopes, CallsNest(b, stk, scopes), NEW c, StackFacts(b, stk, c),
         OpenOrLeft(b, stk, scopes, c),
         Len(stk) > 1, TopOf(stk).within = 0, ~ (TopOf(stk).n <= Len(ListOf(b, TopOf(stk))))
  PROVE  /\ StackFacts(b, CallersOf(stk), c)
         /\ Pending(b, CallersOf(stk)) = Pending(b, stk)
         /\ OpenOrLeft(b, CallersOf(stk), scopes, c)
<1> DEFINE stk2 == CallersOf(stk)
           top == TopOf(stk)
<1>1. stk \in Seq(Calls) /\ Len(stk) > 0
  BY DEF CallsNest
<1>2. PICK m \in Nat : Len(stk) = m + 1 /\ m > 0
  <2>1. Len(stk) - 1 \in Nat /\ Len(stk) = (Len(stk) - 1) + 1 /\ Len(stk) - 1 > 0
    BY <1>1
  <2> QED BY <2>1
<1>3. CallsNest(b, stk2, scopes) /\ Len(stk2) = m /\ TopOf(stk2) = stk[m]
      /\ \A j \in 1 .. m : stk2[j] = stk[j]
  <2>1. Len(stk) - 1 = m
    BY <1>2
  <2> QED BY <2>1, LeaveKeepsNesting
<1> HIDE DEF stk2
<1>4. stk2 \in Seq(Calls)
  BY <1>3 DEF CallsNest
<1>5. \A i \in 0 .. m : \A block : EndsLoop(b, stk2, i, block) <=> EndsLoop(b, stk, i, block)
  BY <1>3 DEF EndsLoop
<1>6. Len(stk) - 1 = m /\ PendingOf(b, top) = {} /\ ~ LoopCall(b, top)
  BY <1>2 DEF PendingOf, LoopCall
<1>7. Pending(b, stk2) = Pending(b, stk)
  <2>1. Pending(b, stk) = PendingOfFirst(b, stk, m)
    BY <1>1, <1>6, PendingIs
  <2>2. PendingOfFirst(b, stk2, m) = PendingOfFirst(b, stk, m)
    BY <1>1, <1>3, <1>4, FewerCallsPend
  <2> QED BY <1>3, <2>1, <2>2 DEF Pending
<1>8. EndsLoop(b, stk2, Len(stk2), c.break_end_block)
  <2>1. EndsLoop(b, stk, m, c.break_end_block)
    BY <1>1, <1>6, PendingIs DEF StackFacts
  <2> QED BY <1>3, <1>5, <2>1
<1>9. ASSUME NEW j \in 1 .. m
      PROVE  /\ LoopIsKnown(b, stk2, j, stk2[j], EmittedBy(c))
             /\ BranchesLead(b, stk2[j])
             /\ ~ stk2[j].unreachable
  <2>1. stk2[j] = stk[j] /\ j \in 1 .. Len(stk) /\ j # Len(stk) /\ j - 1 \in 0 .. m
    BY <1>2, <1>3
  <2>2. /\ LoopIsKnown(b, stk, j, stk[j], EmittedBy(c))
        /\ BranchesLead(b, stk[j])
        /\ ~ stk[j].unreachable
    BY <2>1 DEF StackFacts
  <2>3. LoopIsKnown(b, stk2, j, stk[j], EmittedBy(c))
    BY <1>5, <2>1, <2>2 DEF LoopIsKnown
  <2> QED BY <2>1, <2>2, <2>3
<1>10. /\ stk[m].within > 0
       /\ top.path = Within(stk[m].path, stk[m].n, stk[m].within)
       /\ IsIn(top.path, scopes)
  <2>1. m + 1 \in 1 .. Len(stk) /\ m \in 1 .. Len(stk) /\ m < Len(stk) /\ (m + 1) - 1 = m /\ m + 1 > 1
    BY <1>2
  <2>2. IsUnderWay(b, stk[m])
    BY <2>1 DEF CallsNest
  <2>3. top = stk[m + 1]
    BY <1>2 DEF TopOf
  <2> QED BY <2>1, <2>2, <2>3 DEF CallsNest, IsUnderWay
<1>11. LeftRightly(b, TopOf(stk2), Len(stk2) = 1)
  <2>1. stk[m].within # 0 /\ ~ stk[m].unreachable
    <3>1. m \in 1 .. m /\ m \in 1 .. Len(stk)
      BY <1>2
    <3>2. stk[m] \in Calls
      BY <1>1, <3>1
    <3>3. stk[m].within \in Nat
      BY <3>2 DEF Calls
    <3> QED BY <1>3, <1>9, <1>10, <3>1, <3>3
  <2> QED BY <1>3, <2>1 DEF LeftRightly
<1>12. StackFacts(b, stk2, c)
  BY <1>3, <1>8, <1>9, <1>11 DEF StackFacts
<1>13. IsOpen(c) \/ EndsByLeaving(ListOf(b, top), Leaving)
  <2>1. SUFFICES ASSUME top.unreachable PROVE EndsByLeaving(ListOf(b, top), Leaving)
    BY DEF OpenOrLeft
  <2>2. HasLeft(ListOf(b, top), top.n, IF Len(stk) = 1 THEN {"return"} ELSE Leaving)
    BY <2>1 DEF StackFacts, LeftRightly
  <2>3. HasLeft(ListOf(b, top), top.n, Leaving)
    BY <1>2, <2>2
  <2>4. top.n = Len(ListOf(b, top)) + 1 /\ Len(ListOf(b, top)) \in Nat
        /\ DOMAIN ListOf(b, top) = 1 .. Len(ListOf(b, top))
    <3>1. top \in Calls /\ ListOf(b, top) \in Bodies /\ top.n <= Len(ListOf(b, top)) + 1
      BY TopIsCall DEF IsCallOf
    <3>2. Len(ListOf(b, top)) \in Nat /\ DOMAIN ListOf(b, top) = 1 .. Len(ListOf(b, top))
      BY <3>1, StatementsAreTyped
    <3> QED BY <3>1, <3>2 DEF Calls
  <2>5. top.n - 1 = Len(ListOf(b, top))
    BY <2>4
  <2> QED BY <2>3, <2>4, <2>5 DEF HasLeft, EndsByLeaving
<1>14. OpenOrLeft(b, stk2, scopes, c)
  <2>1. stk[m].within # 0
    <3>1. m \in 1 .. Len(stk)
      BY <1>2
    <3>2. stk[m] \in Calls
      BY <1>1, <3>1
    <3>3. stk[m].within \in Nat
      BY <3>2 DEF Calls
    <3> QED BY <1>10, <3>3
  <2> QED BY <1>3, <1>10, <1>13, <2>1 DEF OpenOrLeft, ListOf
<1> QED BY <1>7, <1>12, <1>14 DEF stk2

(* A generator that starts over knows nothing.                             *)
LEMMA FirstFacts ==
  ASSUME NEW b, NEW scopes
  PROVE  LET stk == <<FirstCall>>
         IN  /\ StackFacts(b, stk, NewContext)
             /\ OpenOrLeft(b, stk, scopes, NewContext)
<1> DEFINE call == FirstCall
           stk == <<call>>
<1>1. call.within = 0 /\ call.n = 1 /\ ~ call.unreachable
  BY DEF Call, FirstCall
<1> HIDE DEF call
<1>2. Len(stk) = 1 /\ stk[1] = call /\ TopOf(stk) = call
  BY DEF TopOf
<1>3. NewContext.break_end_block = 0
  BY DEF NewContext
<1> HIDE DEF stk
<1>4. ASSUME NEW j \in 1 .. Len(stk)
      PROVE  /\ LoopIsKnown(b, stk, j, stk[j], EmittedBy(NewContext))
             /\ BranchesLead(b, stk[j])
             /\ j # Len(stk) => ~ stk[j].unreachable
  <2>1. j = 1 /\ stk[j] = call
    BY <1>2
  <2> QED BY <1>1, <2>1 DEF LoopIsKnown, LoopCall, BranchesLead, PendingOf
<1>5. EndsLoop(b, stk, Len(stk), NewContext.break_end_block)
  BY <1>3 DEF EndsLoop
<1>6. LeftRightly(b, TopOf(stk), Len(stk) = 1)
  BY <1>1, <1>2 DEF LeftRightly
<1>7. StackFacts(b, stk, NewContext)
  BY <1>4, <1>5, <1>6 DEF StackFacts
<1>8. OpenOrLeft(b, stk, scopes, NewContext)
  BY <1>1, <1>2, NewIsGood DEF OpenOrLeft
<1> QED BY <1>7, <1>8 DEF stk, call

(* A for-loop that is in scopes and ends by leaving it.                    *)
LEMMA LeftForIs ==
  ASSUME NEW b, NEW scopes, NEW p \in Paths, NEW n \in Nat, NEW k \in Nat,
         StatementsAt(b, p)[n].kind = "for", IsIn(Within(p, n, k), scopes),
         EndsByLeaving(StatementsAt(b, Within(p, n, k)), Leaving)
  PROVE  LeftFor(b, scopes)
<1> DEFINE path == Within(p, n, k)
<1>1. Enclosing(path) = p /\ path[Len(path)] = <<n, k>>
  <2>1. PICK m \in Nat : m = Len(p)
    BY DEF Paths
  <2>2. /\ Append(p, <<n, k>>) \in Seq(Nat \X Nat)
        /\ Len(Append(p, <<n, k>>)) = m + 1
        /\ Append(p, <<n, k>>)[m + 1] = <<n, k>>
        /\ \A i \in 1 .. m : Append(p, <<n, k>>)[i] = p[i]
    BY <2>1 DEF Paths
  <2> DEFINE q == Append(p, <<n, k>>)
             r == SubSeq(q, 1, m)
  <2>3. q \in Seq(Nat \X Nat) /\ Len(q) = m + 1 /\ q[m + 1] = <<n, k>> /\ \A i \in 1 .. m : q[i] = p[i]
    BY <2>2
  <2> HIDE DEF q
  <2>4. r \in Seq(Nat \X Nat) /\ Len(r) = m /\ \A i \in 1 .. m : r[i] = q[i]
    BY <2>3, SubSeqProperties
  <2> HIDE DEF r
  <2>5. r = p
    BY <2>1, <2>3, <2>4, SeqEqual DEF Paths
  <2>6. path = q /\ Len(path) - 1 = m
    BY <2>3 DEF q, Within
  <2>7. Enclosing(path) = r
    BY <2>6 DEF Enclosing, r
  <2> QED BY <2>3, <2>5, <2>6, <2>7
<1>2. PICK i \in 1 .. Len(scopes) : scopes[i] = path
  BY DEF IsIn
<1>3. path[Len(path)][1] = n
  BY <1>1
<1> HIDE DEF path
<1>4. /\ StatementsAt(b, Enclosing(scopes[i]))[scopes[i][Len(scopes[i])][1]].kind = "for"
      /\ EndsByLeaving(StatementsAt(b, scopes[i]), {"return", "break"})
  BY <1>1, <1>2, <1>3 DEF Leaving, path
<1> QED BY <1>4 DEF LeftFor

BoundedCall(call, count) ==
    /\ call.end_block <= count
    /\ call.next_block <= count
    /\ call.condition_block <= count
    /\ call.old_break_end_block <= count

(* The calls and the context know only blocks that were allocated.         *)
Bounded(stk, c) ==
    /\ c.current_block > 0
    /\ c.current_block <= c.block_count
    /\ c.break_end_block <= c.block_count
    /\ \A j \in 1 .. Len(stk) : BoundedCall(stk[j], c.block_count)

(* Blocks that were allocated stay allocated.                              *)
LEMMA BoundsGrow ==
  ASSUME NEW call \in Calls, NEW count \in Nat, NEW count2 \in Nat, count <= count2,
         BoundedCall(call, count)
  PROVE  BoundedCall(call, count2)
BY DEF BoundedCall, Calls

(* A call for a nested list knows no block that was not allocated.         *)
LEMMA EnterKeepsBounds ==
  ASSUME NEW stk \in Seq(Calls), Len(stk) > 0, NEW c \in Contexts, Bounded(stk, c),
         NEW d \in Contexts, c.block_count <= d.block_count,
         d.current_block > 0, d.current_block <= d.block_count, d.break_end_block <= d.block_count,
         NEW top \in Calls, BoundedCall(top, d.block_count),
         NEW child \in Calls, BoundedCall(child, d.block_count)
  PROVE  Bounded(Pushed(stk, top, child), d)
<1> DEFINE stk2 == Pushed(stk, top, child)
<1>1. PushesOnTop(stk2, stk, top, child)
  BY ReplaceTopAndPush
<1> HIDE DEF stk2
<1>2. PICK m \in Nat : Len(stk) = m
  OBVIOUS
<1>3. c.block_count \in Nat /\ d.block_count \in Nat
  BY DEF Contexts
<1>4. ASSUME NEW j \in 1 .. Len(stk2)
      PROVE  BoundedCall(stk2[j], d.block_count)
  <2>1. CASE j < m
    <3>1. j \in 1 .. Len(stk) /\ stk2[j] = stk[j] /\ stk[j] \in Calls
      BY <1>1, <1>2, <2>1 DEF PushesOnTop
    <3>2. BoundedCall(stk[j], c.block_count)
      BY <3>1 DEF Bounded
    <3> QED BY <1>3, <3>1, <3>2, BoundsGrow
  <2>2. CASE j = m
    BY <1>1, <1>2, <2>2 DEF PushesOnTop
  <2>3. CASE j = m + 1
    BY <1>1, <1>2, <2>3 DEF PushesOnTop
  <2> QED BY <1>1, <1>2, <2>1, <2>2, <2>3 DEF PushesOnTop
<1>5. Bounded(stk2, d)
  BY <1>4 DEF Bounded
<1> QED BY <1>5 DEF stk2

(* Neither does the call that goes on.                                     *)
LEMMA ProceedKeepsBounds ==
  ASSUME NEW stk \in Seq(Calls), Len(stk) > 0, NEW c \in Contexts, Bounded(stk, c),
         NEW d \in Contexts, c.block_count <= d.block_count,
         d.current_block > 0, d.current_block <= d.block_count, d.break_end_block <= d.block_count,
         NEW top \in Calls, BoundedCall(top, d.block_count)
  PROVE  Bounded(Replaced(stk, top), d)
<1> DEFINE stk2 == Replaced(stk, top)
<1>1. ReplacesTop(stk2, stk, top)
  BY ReplaceTop
<1> HIDE DEF stk2
<1>2. PICK m \in Nat : Len(stk) = m
  OBVIOUS
<1>3. c.block_count \in Nat /\ d.block_count \in Nat
  BY DEF Contexts
<1>4. ASSUME NEW j \in 1 .. Len(stk2)
      PROVE  BoundedCall(stk2[j], d.block_count)
  <2>1. CASE j < m
    <3>1. j \in 1 .. Len(stk) /\ stk2[j] = stk[j] /\ stk[j] \in Calls
      BY <1>1, <1>2, <2>1 DEF ReplacesTop
    <3>2. BoundedCall(stk[j], c.block_count)
      BY <3>1 DEF Bounded
    <3> QED BY <1>3, <3>1, <3>2, BoundsGrow
  <2>2. CASE j = m
    BY <1>1, <1>2, <2>2 DEF ReplacesTop
  <2> QED BY <1>1, <1>2, <2>1, <2>2 DEF ReplacesTop
<1>5. Bounded(stk2, d)
  BY <1>4 DEF Bounded
<1> QED BY <1>5 DEF stk2

(* Nor its caller.                                                         *)
LEMMA LeaveKeepsBounds ==
  ASSUME NEW b, NEW stk, NEW scopes, CallsNest(b, stk, scopes), Len(stk) > 1, NEW c, Bounded(stk, c)
  PROVE  Bounded(CallersOf(stk), c)
<1>1. PICK m \in Nat : Len(stk) = m /\ m > 1
  BY TopIsCall
<1>2. Len(CallersOf(stk)) = m - 1 /\ \A j \in 1 .. m - 1 : CallersOf(stk)[j] = stk[j]
  BY <1>1, LeaveKeepsNesting
<1>3. ASSUME NEW j \in 1 .. m - 1
      PROVE  BoundedCall(CallersOf(stk)[j], c.block_count)
  <2>1. j \in 1 .. Len(stk) /\ CallersOf(stk)[j] = stk[j]
    BY <1>1, <1>2
  <2> QED BY <2>1 DEF Bounded
<1> QED BY <1>2, <1>3 DEF Bounded

(* A call that has just begun.                                             *)
LEMMA FreshCalls ==
  ASSUME NEW path \in Paths, NEW scope \in Paths, NEW variable_scope \in Paths, NEW count \in Nat
  PROVE  /\ Call(path, scope, variable_scope) \in Calls
         /\ Call(path, scope, variable_scope).path = path
         /\ Call(path, scope, variable_scope).variable_scope = variable_scope
         /\ Call(path, scope, variable_scope).n = 1
         /\ Call(path, scope, variable_scope).within = 0
         /\ ~ Call(path, scope, variable_scope).unreachable
         /\ BoundedCall(Call(path, scope, variable_scope), count)
<1>1. <<>> \in Paths
  BY DEF Paths
<1> QED BY <1>1 DEF Call, Calls, BoundedCall

(* The first call knows no block but the first.                            *)
LEMMA FirstBounds ==
  Bounded(<<FirstCall>>, NewContext)
<1> DEFINE call == FirstCall
           stk == <<call>>
<1>1. <<>> \in Paths
  BY DEF Paths
<1>2. BoundedCall(call, 1)
  BY <1>1, FreshCalls DEF FirstCall
<1> HIDE DEF call
<1>3. NewContext.current_block = 1 /\ NewContext.block_count = 1 /\ NewContext.break_end_block = 0
  BY DEF NewContext
<1>4. Len(stk) = 1 /\ stk[1] = call
  OBVIOUS
<1> HIDE DEF stk
<1>5. Bounded(stk, NewContext)
  <2>1. \A j \in 1 .. Len(stk) : stk[j] = call
    BY <1>4
  <2> QED BY <1>2, <1>3, <2>1 DEF Bounded
<1> QED BY <1>5 DEF stk, call

(***************************************************************************)
(* The invariant of the generator                                          *)
(***************************************************************************)

GeneratorInv(b, scopes, stk, c) ==
    /\ CallsNest(b, stk, scopes)
    /\ c \in Contexts
    /\ Bounded(stk, c)
    /\ WalksTo(b, scopes, PositionOf(TopOf(stk), c.next_child_scope_index))
    /\ Good(b, scopes, c, Pending(b, stk))
    /\ StackFacts(b, stk, c)
    /\ OpenOrLeft(b, stk, scopes, c)

(* What is known where the k-th list of the statement at the top is        *)
(* entered, with the variables of top and the context d: its scope is the  *)
(* next one.                                                               *)
Entering(b, scopes, stk, c, top, d) ==
    /\ top \in Calls
    /\ top.path = TopOf(stk).path
    /\ top.variable_scope = TopOf(stk).variable_scope
    /\ top.n = TopOf(stk).n
    /\ top.within = TopOf(stk).within + 1
    /\ ~ top.unreachable
    /\ top.n <= Len(ListOf(b, top))
    /\ top.within <= BodyCount(StatementOf(b, top))
    /\ d.next_child_scope_index = c.next_child_scope_index
    /\ Good(b, scopes, d, PendingOfFirst(b, stk, Len(stk) - 1) \cup PendingOf(b, top))
    /\ IsOpen(d)
    /\ EmittedBy(c) \subseteq EmittedBy(d)
    /\ LoopIsKnown(b, stk, Len(stk), top, EmittedBy(d))
    /\ BranchesLead(b, top)
    /\ \/ EndsLoop(b, stk, Len(stk) - 1, d.break_end_block)
       \/ LoopCall(b, top) /\ d.break_end_block = top.end_block
    /\ BoundedCall(top, d.block_count)
    /\ c.block_count <= d.block_count
    /\ d.current_block > 0
    /\ d.current_block <= d.block_count
    /\ d.break_end_block <= d.block_count

(* Then the scope that the generator takes is the one of the list, and the *)
(* invariant holds of what comes next.                                     *)
LEMMA EnteringKeepsInv ==
  ASSUME NEW b \in Bodies, NEW scopes \in Seq(Paths), NEW stk, NEW c, GeneratorInv(b, scopes, stk, c),
         NEW top, NEW d, Entering(b, scopes, stk, c, top, d),
         NEW path, path = Within(top.path, top.n, top.within),
         NEW scope \in Paths
  PROVE  /\ d.next_child_scope_index + 1 <= Len(scopes)
         /\ scopes[c.next_child_scope_index + 1] = path
         /\ GeneratorInv(b, scopes, Pushed(stk, top, Call(path, scope, path)),
                         [d EXCEPT !.next_child_scope_index = @ + 1])
<1> DEFINE e == [d EXCEPT !.next_child_scope_index = @ + 1]
           child == Call(path, scope, path)
           stk2 == Pushed(stk, top, child)
           count == c.next_child_scope_index
           p == PositionOf(TopOf(stk), count)
<1>1. /\ CallsNest(b, stk, scopes)
      /\ stk \in Seq(Calls)
      /\ Len(stk) > 0
      /\ TopOf(stk) \in Calls
      /\ c \in Contexts
      /\ count \in Nat
      /\ top \in Calls
  BY TopIsCall DEF GeneratorInv, CallsNest, Contexts, Entering
<1>2. d \in Contexts
  BY DEF Entering, Good
<1>3. /\ e \in Contexts
      /\ e.next_child_scope_index = count + 1
      /\ e.blocks = d.blocks
      /\ e.instructions = d.instructions
      /\ e.current_block = d.current_block
      /\ e.block_count = d.block_count
      /\ e.break_end_block = d.break_end_block
      /\ e.assertion_failed = d.assertion_failed
  <2>1. d.next_child_scope_index = count
    BY DEF Entering
  <2>2. d.next_child_scope_index + 1 = count + 1 /\ count + 1 \in Nat
    BY <1>1, <2>1
  <2>3. e = [d EXCEPT !.next_child_scope_index = count + 1]
    BY <2>2
  <2> HIDE DEF e, count
  <2>4. e \in Contexts
    BY <1>2, <2>2, <2>3 DEF Contexts
  <2>5. /\ e.next_child_scope_index = count + 1
        /\ e.blocks = d.blocks
        /\ e.instructions = d.instructions
        /\ e.current_block = d.current_block
    BY <1>2, <2>3 DEF Contexts
  <2>6. /\ e.block_count = d.block_count
        /\ e.break_end_block = d.break_end_block
        /\ e.assertion_failed = d.assertion_failed
    BY <1>2, <2>3 DEF Contexts
  <2> QED BY <2>4, <2>5, <2>6
<1>4. /\ p \in Positions
      /\ p.path = TopOf(stk).path
      /\ p.n = TopOf(stk).n
      /\ p.within = TopOf(stk).within
      /\ p.count = count
      /\ WalksTo(b, scopes, p)
  <2>1. WalksTo(b, scopes, p)
    BY DEF GeneratorInv
  <2> QED BY <1>1, <2>1, PositionsOfCalls
<1>5. /\ top.path = p.path
      /\ top.n = p.n
      /\ top.within = p.within + 1
      /\ ListOf(b, top) = StatementsAt(b, p.path)
      /\ StatementOf(b, top) = StatementsAt(b, p.path)[p.n]
      /\ ListOf(b, TopOf(stk)) = StatementsAt(b, p.path)
      /\ StatementOf(b, TopOf(stk)) = StatementsAt(b, p.path)[p.n]
  BY <1>4 DEF Entering, ListOf, StatementOf
<1>6. IsInList(b, p)
  BY <1>5 DEF Entering, IsInList
<1>7. BodyCount(StatementOf(b, TopOf(stk))) \in Nat
  <2>1. TopOf(stk).n <= Len(ListOf(b, TopOf(stk)))
    BY <1>4, <1>5, <1>6 DEF IsInList
  <2>2. /\ StatementOf(b, TopOf(stk)) \in Statements(Bodies)
        /\ IsWellFormed(StatementOf(b, TopOf(stk)))
    BY <1>1, <2>1, TopStatement
  <2> QED BY <2>2, BodyCountOf
<1>8. HasNextList(b, p)
  <2>1. p.within \in Nat
    BY <1>4 DEF Positions
  <2> QED BY <1>5, <1>7, <2>1 DEF Entering, HasNextList
<1> HIDE DEF e, child, stk2, p
<1>9. /\ count + 1 <= Len(scopes)
      /\ scopes[count + 1] = path
      /\ WalksTo(b, scopes, [path |-> path, n |-> 1, within |-> 0, count |-> count + 1])
  <2>1. path = Within(p.path, p.n, p.within + 1)
    BY <1>5
  <2> QED BY <1>4, <1>6, <1>8, <2>1, WalkEnters
<1>10. IsIn(path, scopes)
  BY <1>1, <1>9 DEF IsIn
<1>11. CallsNest(b, stk2, scopes) /\ child \in Calls
  <2> DEFINE k == top.within
  <2>1. k \in Nat /\ k > 0
    BY <1>1, <1>5, <1>4 DEF Positions, Calls
  <2>2. /\ k <= BodyCount(StatementOf(b, TopOf(stk)))
        /\ TopOf(stk).n <= Len(ListOf(b, TopOf(stk)))
    BY <1>5 DEF Entering
  <2>3. path = Within(TopOf(stk).path, TopOf(stk).n, k)
    BY <1>4, <1>5
  <2>4. top.path = TopOf(stk).path /\ top.variable_scope = TopOf(stk).variable_scope /\ top.n = TopOf(stk).n
    BY DEF Entering
  <2>5. top.within = k
    OBVIOUS
  <2> HIDE DEF k
  <2> QED
    BY <1>1, <1>10, <2>1, <2>2, <2>3, <2>4, <2>5, EnterKeepsNesting DEF stk2, child
<1>12. path \in Paths
  BY <1>4, <1>5, <1>1, WithinIsPath DEF Positions, Calls
<1>13. /\ child.path = path
       /\ child.n = 1
       /\ child.within = 0
       /\ ~ child.unreachable
       /\ BoundedCall(child, e.block_count)
  BY <1>3, <1>12, FreshCalls DEF child, Contexts
<1>14. PushesOnTop(stk2, stk, top, child)
  BY <1>1, <1>11, ReplaceTopAndPush DEF stk2
<1>15. TopOf(stk2) = child
  BY <1>14 DEF PushesOnTop, TopOf
<1>16. WalksTo(b, scopes, PositionOf(TopOf(stk2), e.next_child_scope_index))
  BY <1>3, <1>9, <1>13, <1>15 DEF PositionOf
<1>17. /\ Good(b, scopes, e, PendingOfFirst(b, stk, Len(stk) - 1) \cup PendingOf(b, top))
       /\ IsOpen(e)
       /\ EmittedBy(e) = EmittedBy(d)
  BY <1>3, CountersDoNotMatter DEF Entering
<1>18. /\ StackFacts(b, stk2, e)
       /\ Pending(b, stk2) = PendingOfFirst(b, stk, Len(stk) - 1) \cup PendingOf(b, top)
  <2>1. StackFacts(b, stk, c)
    BY DEF GeneratorInv
  <2>2. top.within > 0 /\ ~ top.unreachable
    BY <1>4, <1>5 DEF Entering, Positions
  <2>3. /\ EmittedBy(c) \subseteq EmittedBy(e)
        /\ LoopIsKnown(b, stk, Len(stk), top, EmittedBy(e))
        /\ BranchesLead(b, top)
        /\ \/ EndsLoop(b, stk, Len(stk) - 1, e.break_end_block)
           \/ LoopCall(b, top) /\ e.break_end_block = top.end_block
    BY <1>3, <1>17 DEF Entering
  <2> QED BY <1>1, <1>11, <1>13, <2>1, <2>2, <2>3, EnterKeepsFacts DEF stk2
<1>19. OpenOrLeft(b, stk2, scopes, e)
  BY <1>13, <1>15, <1>17 DEF OpenOrLeft
<1>20. Bounded(stk2, e)
  <2>1. Bounded(stk, c)
    BY DEF GeneratorInv
  <2>2. /\ c.block_count <= e.block_count
        /\ e.current_block > 0
        /\ e.current_block <= e.block_count
        /\ e.break_end_block <= e.block_count
        /\ BoundedCall(top, e.block_count)
    BY <1>3 DEF Entering
  <2> QED BY <1>1, <1>3, <1>11, <1>13, <2>1, <2>2, EnterKeepsBounds DEF stk2
<1>21. GeneratorInv(b, scopes, stk2, e)
  BY <1>3, <1>11, <1>16, <1>17, <1>18, <1>19, <1>20 DEF GeneratorInv
<1> QED BY <1>9, <1>21 DEF Entering, stk2, child, e

(* What is known where the call at the top goes on to its next statement,  *)
(* with the variables of top and the context d.                            *)
Proceeding(b, scopes, stk, c, top, d) ==
    /\ top \in Calls
    /\ top.path = TopOf(stk).path
    /\ top.variable_scope = TopOf(stk).variable_scope
    /\ top.n = TopOf(stk).n + 1
    /\ top.within = 0
    /\ TopOf(stk).n <= Len(ListOf(b, TopOf(stk)))
    /\ ~ (TopOf(stk).within < BodyCount(StatementOf(b, TopOf(stk))))
    /\ LeftRightly(b, top, Len(stk) = 1)
    /\ d.next_child_scope_index = c.next_child_scope_index
    /\ Good(b, scopes, d, PendingOfFirst(b, stk, Len(stk) - 1))
    /\ IsOpen(d) <=> ~ top.unreachable
    /\ EmittedBy(c) \subseteq EmittedBy(d)
    /\ EndsLoop(b, stk, Len(stk) - 1, d.break_end_block)
    /\ BoundedCall(top, d.block_count)
    /\ c.block_count <= d.block_count
    /\ d.current_block > 0
    /\ d.current_block <= d.block_count
    /\ d.break_end_block <= d.block_count

(* Then the invariant holds of what comes next.                            *)
LEMMA ProceedingKeepsInv ==
  ASSUME NEW b \in Bodies, NEW scopes \in Seq(Paths), NEW stk, NEW c, GeneratorInv(b, scopes, stk, c),
         NEW top, NEW d, Proceeding(b, scopes, stk, c, top, d)
  PROVE  GeneratorInv(b, scopes, Replaced(stk, top), d)
<1> DEFINE stk2 == Replaced(stk, top)
           count == c.next_child_scope_index
           p == PositionOf(TopOf(stk), count)
<1>1. /\ CallsNest(b, stk, scopes)
      /\ stk \in Seq(Calls)
      /\ Len(stk) > 0
      /\ TopOf(stk) \in Calls
      /\ c \in Contexts
      /\ count \in Nat
      /\ top \in Calls
      /\ d \in Contexts
  BY TopIsCall DEF GeneratorInv, CallsNest, Contexts, Proceeding, Good
<1>2. /\ p \in Positions
      /\ p.path = TopOf(stk).path
      /\ p.n = TopOf(stk).n
      /\ p.within = TopOf(stk).within
      /\ p.count = count
      /\ WalksTo(b, scopes, p)
  <2>1. WalksTo(b, scopes, p)
    BY DEF GeneratorInv
  <2> QED BY <1>1, <2>1, PositionsOfCalls
<1>3. IsInList(b, p) /\ ~ HasNextList(b, p)
  BY <1>2 DEF Proceeding, IsInList, HasNextList, ListOf, StatementOf
<1>4. ReplacesTop(stk2, stk, top)
  BY <1>1, ReplaceTop
<1> HIDE DEF stk2, p
<1>5. WalksTo(b, scopes, [path |-> p.path, n |-> p.n + 1, within |-> 0, count |-> p.count])
  BY <1>2, <1>3, WalkProceeds
<1>6. CallsNest(b, stk2, scopes)
  BY <1>1, ProceedKeepsNesting DEF stk2, Proceeding
<1>7. /\ StackFacts(b, stk2, d)
      /\ Pending(b, stk2) = PendingOfFirst(b, stk, Len(stk) - 1)
      /\ TopOf(stk2) = top
  <2>1. StackFacts(b, stk, c)
    BY DEF GeneratorInv
  <2> QED BY <1>1, <2>1, ProceedKeepsFacts DEF stk2, Proceeding
<1>8. WalksTo(b, scopes, PositionOf(TopOf(stk2), d.next_child_scope_index))
  BY <1>2, <1>5, <1>7 DEF PositionOf, Proceeding
<1>9. OpenOrLeft(b, stk2, scopes, d)
  BY <1>7 DEF OpenOrLeft, Proceeding
<1>10. Bounded(stk2, d)
  <2>1. Bounded(stk, c)
    BY DEF GeneratorInv
  <2> QED BY <1>1, <2>1, ProceedKeepsBounds DEF stk2, Proceeding
<1>11. GeneratorInv(b, scopes, stk2, d)
  BY <1>1, <1>6, <1>7, <1>8, <1>9, <1>10 DEF GeneratorInv, Proceeding
<1> QED BY <1>11 DEF stk2

(* The end of a nested list is the end of it for both walks.               *)
LEMMA LeavingKeepsInv ==
  ASSUME NEW b \in Bodies, NEW scopes \in Seq(Paths), NEW stk, NEW c, GeneratorInv(b, scopes, stk, c),
         Len(stk) > 1, TopOf(stk).within = 0, ~ (TopOf(stk).n <= Len(ListOf(b, TopOf(stk))))
  PROVE  GeneratorInv(b, scopes, CallersOf(stk), c)
<1> DEFINE stk2 == CallersOf(stk)
           count == c.next_child_scope_index
           p == PositionOf(TopOf(stk), count)
           q == PositionOf(TopOf(stk2), count)
<1>1. /\ CallsNest(b, stk, scopes)
      /\ TopOf(stk) \in Calls
      /\ c \in Contexts
      /\ count \in Nat
  BY TopIsCall DEF GeneratorInv, Contexts
<1>2. CallsNest(b, stk2, scopes) /\ TopOf(stk2) = stk[Len(stk) - 1] /\ TopOf(stk2) \in Calls
  BY <1>1, LeaveKeepsNesting, TopIsCall
<1>3. /\ p \in Positions
      /\ p.path = TopOf(stk).path
      /\ p.n = TopOf(stk).n
      /\ p.within = TopOf(stk).within
      /\ p.count = count
      /\ WalksTo(b, scopes, p)
  <2>1. WalksTo(b, scopes, p)
    BY DEF GeneratorInv
  <2> QED BY <1>1, <2>1, PositionsOfCalls
<1>4. /\ q \in Positions
      /\ q.path = TopOf(stk2).path
      /\ q.n = TopOf(stk2).n
      /\ q.within = TopOf(stk2).within
      /\ q.count = count
  BY <1>1, <1>2, PositionsOfCalls
<1> HIDE DEF stk2, p, q
<1>5. p.path = Within(q.path, q.n, q.within)
  <2>1. PICK m \in Nat : Len(stk) = m /\ m > 1
    BY <1>1, TopIsCall
  <2>2. stk[m].path = Within(stk[m - 1].path, stk[m - 1].n, stk[m - 1].within)
    BY <1>1, <2>1 DEF CallsNest
  <2> QED BY <1>2, <1>3, <1>4, <2>1, <2>2 DEF TopOf
<1>6. ~ IsInList(b, p)
  BY <1>3 DEF IsInList, ListOf
<1>7. WalksTo(b, scopes, q)
  BY <1>3, <1>4, <1>5, <1>6, WalkLeaves
<1>8. /\ StackFacts(b, stk2, c)
      /\ Pending(b, stk2) = Pending(b, stk)
      /\ OpenOrLeft(b, stk2, scopes, c)
  <2>1. StackFacts(b, stk, c) /\ OpenOrLeft(b, stk, scopes, c)
    BY DEF GeneratorInv
  <2> QED BY <1>1, <2>1, LeaveKeepsFacts DEF stk2
<1>9. Bounded(stk2, c)
  BY <1>1, LeaveKeepsBounds DEF stk2, GeneratorInv
<1>10. GeneratorInv(b, scopes, stk2, c)
  BY <1>1, <1>2, <1>7, <1>8, <1>9 DEF GeneratorInv, q
<1> QED BY <1>10 DEF stk2

(* The generator begins, or starts over.                                   *)
LEMMA GeneratorBegins ==
  ASSUME NEW b \in Bodies, NEW scopes, WalksTo(b, scopes, FirstPosition)
  PROVE  GeneratorInv(b, scopes, <<FirstCall>>, NewContext)
<1> DEFINE call == FirstCall
           stk == <<call>>
<1>1. CallsNest(b, stk, scopes)
  BY FirstCallNests
<1>2. TopOf(stk) = call
  BY DEF TopOf
<1>3. NewContext.next_child_scope_index = 0
  BY DEF NewContext
<1>4. WalksTo(b, scopes, PositionOf(TopOf(stk), NewContext.next_child_scope_index))
  BY <1>2, <1>3 DEF FirstPosition
<1>5. StackFacts(b, stk, NewContext) /\ OpenOrLeft(b, stk, scopes, NewContext)
  BY FirstFacts
<1>6. Bounded(stk, NewContext)
  BY FirstBounds
<1> HIDE DEF stk
<1>7. NewContext \in Contexts /\ Good(b, scopes, NewContext, Pending(b, stk))
  BY NewIsGood
<1>8. GeneratorInv(b, scopes, stk, NewContext)
  BY <1>1, <1>4, <1>5, <1>6, <1>7 DEF GeneratorInv
<1> QED BY <1>8 DEF stk

(* What LLVM does not accept.                                              *)
Explained ==
    \/ LeftFor(body, child_scopes)
    \/ EndsByLeaving(body, {"return"}) /\ ~ has_return_at_end(body)

HandedOver ==
    /\ \A n \in 1 .. Len(context.blocks) :
          LeadTo(context.blocks[n].instructions, EmittedBy(context))
    /\ \/ Explained
       \/ \A n \in 1 .. Len(context.blocks) : IsBasicBlock(context.blocks[n].instructions)

Inv ==
    /\ body \in Bodies
    /\ has_return \in BOOLEAN
    /\ child_scopes \in Seq(Paths)
    /\ context \in Contexts
    /\ CallsNest(body, stack, child_scopes)
    /\ Bounded(stack, context)
    /\ pc \in {"process_scope", "generate", "backend", "run", "returned",
               "error", "aborted", "verify_failed"}
    /\ pc = "process_scope" =>
         /\ context = NewContext
         /\ WalkedTo(body, child_scopes, PositionOf(TopOf(stack), Len(child_scopes)))
    /\ pc = "generate" => GeneratorInv(body, child_scopes, stack, context)
    /\ pc = "backend" => HandedOver
    /\ pc = "verify_failed" => Explained

PendingOfCallers == PendingOfFirst(body, stack, Len(stack) - 1)

(* Where a walk is.                                                        *)
LEMMA TopIsKnown ==
  ASSUME Inv
  PROVE  /\ stack \in Seq(Calls)
         /\ Len(stack) \in Nat \ {0}
         /\ Top = TopOf(stack)
         /\ Callers = CallersOf(stack)
         /\ List = ListOf(body, Top)
         /\ Current = StatementOf(body, Top)
         /\ Top \in Calls
         /\ Top.variable_scope = Top.path
         /\ Top.n \in Nat \ {0}
         /\ Top.within \in Nat
         /\ Len(List) \in Nat
         /\ Top.n <= Len(List) + 1
<1>1. CallsNest(body, stack, child_scopes)
  BY DEF Inv
<1>2. /\ Top = TopOf(stack)
      /\ Callers = CallersOf(stack)
      /\ List = ListOf(body, Top)
      /\ Current = StatementOf(body, Top)
  BY DEF Top, TopOf, Callers, CallersOf, List, ListOf, Current, StatementOf
<1>3. /\ stack \in Seq(Calls)
      /\ Len(stack) \in Nat \ {0}
      /\ IsCallOf(body, Top)
  BY <1>1, <1>2, TopIsCall DEF CallsNest
<1>4. Top \in Calls /\ Top.variable_scope = Top.path /\ List \in Bodies /\ Top.n <= Len(List) + 1
  BY <1>2, <1>3 DEF IsCallOf
<1>5. Len(List) \in Nat
  BY <1>4, StatementsAreTyped
<1> QED BY <1>2, <1>3, <1>4, <1>5 DEF Calls

(* Before the end of its list a walk is at a statement.                    *)
LEMMA CurrentIsKnown ==
  ASSUME Inv, ~ AtEnd
  PROVE  /\ Top.n <= Len(List)
         /\ Current \in Statements(Bodies)
         /\ IsWellFormed(Current)
         /\ Top.within <= BodyCount(Current)
         /\ BodyCount(Current) \in Nat
         /\ Conditions(Current) \in Nat
<1>1. CallsNest(body, stack, child_scopes)
  BY DEF Inv
<1>2. IsCallOf(body, Top)
  BY <1>1, TopIsKnown, TopIsCall
<1>3. Top.n <= Len(List)
  <2>1. CASE Top.within = 0
    BY <2>1, TopIsKnown DEF AtEnd
  <2>2. CASE Top.within # 0
    BY <1>2, <2>2, TopIsKnown DEF IsCallOf, IsUnderWay
  <2> QED BY <2>1, <2>2
<1>4. Current \in Statements(Bodies) /\ IsWellFormed(Current)
  BY <1>1, <1>3, TopIsKnown, TopStatement
<1>5. BodyCount(Current) \in Nat /\ Conditions(Current) \in Nat
  BY <1>4, BodyCountOf
<1>6. Top.within <= BodyCount(Current)
  <2>1. CASE Top.within = 0
    BY <1>5, <2>1
  <2>2. CASE Top.within # 0
    BY <1>2, <2>2, TopIsKnown DEF IsCallOf, IsUnderWay
  <2> QED BY <2>1, <2>2
<1> QED BY <1>3, <1>4, <1>5, <1>6

(* What the generator knows before the end of its list.                    *)
LEMMA GeneratingIs ==
  ASSUME Inv, Generating
  PROVE  /\ GeneratorInv(body, child_scopes, stack, context)
         /\ context \in Contexts
         /\ Good(body, child_scopes, context, PendingOfCallers \cup PendingOf(body, Top))
         /\ LeftRightly(body, Top, Len(stack) = 1)
         /\ BoundedCall(Top, context.block_count)
         /\ \/ EndsLoop(body, stack, Len(stack) - 1, context.break_end_block)
            \/ LoopCall(body, Top) /\ context.break_end_block = Top.end_block
         /\ LoopIsKnown(body, stack, Len(stack), Top, EmittedBy(context))
         /\ BranchesLead(body, Top)
         /\ Top.within = 0 => (IsOpen(context) <=> ~ Top.unreachable)
         /\ Top.within > 0 => ~ Top.unreachable
<1>1. GeneratorInv(body, child_scopes, stack, context)
  BY DEF Inv, Generating
<1>2. Pending(body, stack) = PendingOfCallers \cup PendingOf(body, Top)
  BY TopIsKnown, PendingIs DEF PendingOfCallers
<1>3. Good(body, child_scopes, context, PendingOfCallers \cup PendingOf(body, Top))
  BY <1>1, <1>2 DEF GeneratorInv
<1>4. LeftRightly(body, Top, Len(stack) = 1)
  BY <1>1, TopIsKnown DEF GeneratorInv, StackFacts
<1>5. Len(stack) \in 1 .. Len(stack) /\ stack[Len(stack)] = Top
  BY TopIsKnown DEF TopOf
<1>6. BoundedCall(Top, context.block_count)
  BY <1>1, <1>5 DEF GeneratorInv, Bounded
<1>7. \/ EndsLoop(body, stack, Len(stack) - 1, context.break_end_block)
      \/ LoopCall(body, Top) /\ context.break_end_block = Top.end_block
  <2>1. EndsLoop(body, stack, Len(stack), context.break_end_block)
    BY <1>1 DEF GeneratorInv, StackFacts
  <2> QED BY <2>1, TopIsKnown, PendingIs
<1>8. LoopIsKnown(body, stack, Len(stack), Top, EmittedBy(context)) /\ BranchesLead(body, Top)
  BY <1>1, <1>5 DEF GeneratorInv, StackFacts
<1>9. Top.within = 0 => (IsOpen(context) <=> ~ Top.unreachable)
  BY <1>1, TopIsKnown DEF GeneratorInv, OpenOrLeft
<1>10. Top.within > 0 => ~ Top.unreachable
  BY <1>4, TopIsKnown DEF LeftRightly
<1> QED BY <1>1, <1>3, <1>4, <1>6, <1>7, <1>8, <1>9, <1>10 DEF GeneratorInv

(* A statement begins in an open block.                                    *)
LEMMA BeginningIs ==
  ASSUME Inv, NEW kind, Begins(kind)
  PROVE  /\ Current.kind = kind
         /\ Top.within = 0
         /\ ~ Top.unreachable
         /\ Begun = context
         /\ IsOpen(context)
         /\ Good(body, child_scopes, context, PendingOfCallers)
         /\ EndsLoop(body, stack, Len(stack) - 1, context.break_end_block)
<1>1. Generating /\ Current.kind = kind /\ Top.within = 0 /\ ~ Top.unreachable
  BY DEF Begins
<1>2. IsOpen(context)
  BY <1>1, GeneratingIs
<1>3. Begun = context
  BY <1>1, <1>2, GeneratingIs, AssertThatHolds DEF Begun, IsOpen
<1>4. PendingOf(body, Top) = {} /\ ~ LoopCall(body, Top)
  BY <1>1 DEF PendingOf, LoopCall
<1>5. /\ Good(body, child_scopes, context, PendingOfCallers \cup PendingOf(body, Top))
      /\ \/ EndsLoop(body, stack, Len(stack) - 1, context.break_end_block)
         \/ LoopCall(body, Top) /\ context.break_end_block = Top.end_block
  BY <1>1, GeneratingIs
<1>6. PendingOfCallers \cup PendingOf(body, Top) = PendingOfCallers
  BY <1>4
<1> QED BY <1>1, <1>2, <1>3, <1>4, <1>5, <1>6

(* An instruction of the current statement.                                *)
LEMMA InstructionsAreTyped ==
  ASSUME Inv, NEW part \in Int, NEW kind \in {"other", "return", "branch", "jump"},
         NEW targets \in Seq(Nat)
  PROVE  /\ Instruction(kind, Here(part), targets) \in Instructions
         /\ Instruction(kind, Here(part), targets).kind = kind
         /\ Instruction(kind, Here(part), targets).targets = targets
<1>1. Top.path \in Paths /\ Top.n \in Nat
  BY TopIsKnown DEF Calls
<1>2. Here(part) \in Points
  BY <1>1 DEF Here, Point, Points
<1> QED BY <1>2 DEF Instruction, Instructions

(* The generator goes on to the next statement with the context d.         *)
LEMMA ProceedingStep ==
  ASSUME Inv, Generating, NEW d, NEW top, Proceeding(body, child_scopes, stack, context, top, d),
         stack' = Append(Callers, top), context' = d,
         UNCHANGED <<body, child_scopes>>
  PROVE  /\ GeneratorInv(body, child_scopes, stack, context)'
         /\ ~ d.assertion_failed
<1>1. stack' = Replaced(stack, top)
  BY DEF Callers, Replaced
<1>2. GeneratorInv(body, child_scopes, Replaced(stack, top), d)
  BY GeneratingIs, ProceedingKeepsInv DEF Inv
<1>3. ~ d.assertion_failed
  BY DEF Proceeding, Good
<1> QED BY <1>1, <1>2, <1>3

(* The next scope is one of a list, or none is left.                       *)
LEMMA NextScopeIsPath ==
  ASSUME Inv
  PROVE  NextScope \in Paths
<1>1. child_scopes \in Seq(Paths) /\ context \in Contexts
  BY DEF Inv
<1>2. context.next_child_scope_index + 1 \in Nat \ {0} /\ <<>> \in Paths
  BY <1>1 DEF Contexts, Paths
<1> QED BY <1>1, <1>2 DEF NextScope

(* The generator enters the next list with the context d.                  *)
LEMMA EnteringStep ==
  ASSUME Inv, Generating, NEW d, NEW top, Entering(body, child_scopes, stack, context, top, d),
         NEW scope \in Paths, Enter(top, top.within, scope, NextScope), context' = TakeScope(d),
         UNCHANGED <<body, child_scopes>>
  PROVE  /\ GeneratorInv(body, child_scopes, stack, context)'
         /\ ~ TakeScope(d).assertion_failed
<1> DEFINE path == Within(top.path, top.n, top.within)
           e == [d EXCEPT !.next_child_scope_index = @ + 1]
<1>1. top \in Calls /\ d \in Contexts /\ top.path = Top.path /\ top.n = Top.n
      /\ d.next_child_scope_index = context.next_child_scope_index
  BY TopIsKnown DEF Entering, Good
<1>2. /\ d.next_child_scope_index + 1 <= Len(child_scopes)
      /\ child_scopes[context.next_child_scope_index + 1] = path
      /\ GeneratorInv(body, child_scopes, Pushed(stack, top, Call(path, scope, path)), e)
  <2>1. body \in Bodies /\ child_scopes \in Seq(Paths) /\ GeneratorInv(body, child_scopes, stack, context)
    BY GeneratingIs DEF Inv
  <2> HIDE DEF e
  <2> QED BY <2>1, EnteringKeepsInv DEF e
<1>3. NextScope = path
  BY <1>1, <1>2 DEF NextScope
<1>4. [top EXCEPT !.within = top.within] = top
  BY <1>1 DEF Calls
<1>5. stack' = Pushed(stack, top, Call(path, scope, path))
  BY <1>1, <1>3, <1>4 DEF Enter, Callers, Pushed
<1>6. TakeScope(d) = e
  <2>1. d.next_child_scope_index \in Nat /\ child_scopes \in Seq(Paths)
    BY <1>1 DEF Contexts, Inv
  <2>2. e \in Contexts
    BY <1>1, <2>1 DEF Contexts
  <2> HIDE DEF e
  <2>3. TakeScope(d) = Assert(d.next_child_scope_index + 1 <= Len(child_scopes), e)
    BY DEF TakeScope, e
  <2> QED BY <1>2, <2>2, <2>3, AssertThatHolds
<1>7. ~ e.assertion_failed
  BY <1>2 DEF GeneratorInv, Good
<1> HIDE DEF path, e
<1> QED BY <1>2, <1>5, <1>6, <1>7

(* The next statement is reached rightly.                                  *)
LEMMA ReachesNext ==
  ASSUME Inv, Generating, NEW top \in Calls, top.path = Top.path, top.n = Top.n + 1, top.within = 0,
         top.unreachable => Current.kind = "declaration" /\ Top.unreachable,
         Current.kind # "return"
  PROVE  LeftRightly(body, top, Len(stack) = 1)
<1> DEFINE kinds == IF Len(stack) = 1 THEN {"return"} ELSE Leaving
<1>1. ListOf(body, top) = ListOf(body, Top) /\ ListOf(body, Top)[Top.n] = Current
      /\ Top.n \in Nat \ {0} /\ top.n - 1 = Top.n
  BY TopIsKnown DEF ListOf, StatementOf
<1>2. ASSUME top.unreachable
      PROVE  HasLeft(ListOf(body, top), top.n, kinds)
  <2>1. HasLeft(ListOf(body, Top), Top.n, kinds)
    BY <1>2, GeneratingIs DEF LeftRightly
  <2>2. PICK m \in 1 .. Top.n - 1 :
           /\ ListOf(body, Top)[m].kind \in kinds
           /\ \A i \in m + 1 .. Top.n - 1 : ListOf(body, Top)[i].kind = "declaration"
    BY <2>1 DEF HasLeft
  <2>3. m \in 1 .. top.n - 1
    BY <1>1, <2>2
  <2>4. ASSUME NEW i \in m + 1 .. top.n - 1
        PROVE  ListOf(body, Top)[i].kind = "declaration"
    <3>1. i \in m + 1 .. Top.n - 1 \/ i = Top.n
      BY <1>1, <2>2
    <3> QED BY <1>1, <1>2, <2>2, <3>1
  <2> QED BY <1>1, <2>2, <2>3, <2>4 DEF HasLeft
<1> QED BY <1>1, <1>2 DEF LeftRightly

(* The call at the top, with a statement more.                             *)
LEMMA NextCall ==
  ASSUME Inv, NEW u \in BOOLEAN
  PROVE  LET top == [[Top EXCEPT !.unreachable = u] EXCEPT !.n = Top.n + 1, !.within = 0]
         IN  /\ top \in Calls
             /\ top.path = Top.path
             /\ top.variable_scope = Top.variable_scope
             /\ top.n = Top.n + 1
             /\ top.within = 0
             /\ top.unreachable = u
             /\ BoundedCall(top, context.block_count)
<1>1. Top \in Calls /\ Top.n \in Nat \ {0} /\ BoundedCall(Top, context.block_count)
  <2>1. Top = TopOf(stack) /\ Len(stack) \in Nat \ {0}
    BY TopIsKnown
  <2> QED BY <2>1, TopIsKnown DEF Inv, Bounded, TopOf
<1> DEFINE t == [Top EXCEPT !.unreachable = u]
           top == [t EXCEPT !.n = Top.n + 1, !.within = 0]
<1>2. /\ t \in Calls
      /\ t.path = Top.path
      /\ t.variable_scope = Top.variable_scope
      /\ t.unreachable = u
      /\ t.end_block = Top.end_block
      /\ t.next_block = Top.next_block
      /\ t.condition_block = Top.condition_block
      /\ t.old_break_end_block = Top.old_break_end_block
  BY <1>1 DEF Calls
<1> HIDE DEF t
<1>3. /\ top \in Calls
      /\ top.n = Top.n + 1
      /\ top.within = 0
  <2> DEFINE n == Top.n + 1
  <2>1. n \in Nat \ {0}
    BY <1>1
  <2>2. top = [t EXCEPT !.n = n, !.within = 0]
    OBVIOUS
  <2> HIDE DEF n, top
  <2>3. top \in Calls
    BY <1>2, <2>1, <2>2 DEF Calls
  <2>4. top.n = n /\ top.within = 0
    BY <1>2, <2>2 DEF Calls
  <2> QED BY <2>3, <2>4 DEF n
<1>5. /\ top.path = t.path
      /\ top.variable_scope = t.variable_scope
      /\ top.unreachable = t.unreachable
  BY <1>1, <1>2 DEF Calls
<1>6. /\ top.end_block = t.end_block
      /\ top.next_block = t.next_block
      /\ top.condition_block = t.condition_block
      /\ top.old_break_end_block = t.old_break_end_block
  BY <1>1, <1>2 DEF Calls
<1> HIDE DEF top
<1>4. BoundedCall(top, context.block_count)
  BY <1>1, <1>2, <1>6 DEF BoundedCall
<1> QED BY <1>2, <1>3, <1>4, <1>5 DEF top, t

(***************************************************************************)
(* The steps of the generator                                              *)
(***************************************************************************)

(* The context d is c with more in it.                                     *)
Continues(c, d) ==
    /\ d.next_child_scope_index = c.next_child_scope_index
    /\ EmittedBy(c) \subseteq EmittedBy(d)
    /\ c.block_count <= d.block_count
    /\ d.current_block > 0
    /\ d.current_block <= d.block_count
    /\ d.break_end_block <= d.block_count

(* What every step of the generator has to show.                           *)
GeneratorGoesOn ==
    /\ GeneratorInv(body, child_scopes, stack, context)'
    /\ pc' = "generate"
    /\ UNCHANGED <<body, has_return, child_scopes>>

(* A context continues itself.                                             *)
LEMMA ContextContinues ==
  ASSUME Inv, Generating
  PROVE  /\ Continues(context, context)
         /\ context.block_count \in Nat
         /\ context.break_end_block \in Nat
         /\ context.current_block \in Nat
         /\ context.current_block > 0
         /\ context.current_block <= context.block_count
         /\ context.break_end_block <= context.block_count
<1>1. context \in Contexts /\ Bounded(stack, context)
  BY DEF Inv
<1> QED BY <1>1 DEF Continues, Contexts, Bounded

(* The walk goes on to the next statement.                                 *)
LEMMA GoesOn ==
  ASSUME Inv, Generating, NEW u \in BOOLEAN, NEW top,
         top = [[Top EXCEPT !.unreachable = u] EXCEPT !.n = Top.n + 1, !.within = 0],
         ~ (Top.within < BodyCount(Current)),
         LeftRightly(body, top, Len(stack) = 1),
         NEW d, Good(body, child_scopes, d, PendingOfCallers),
         IsOpen(d) <=> ~ u, Continues(context, d),
         EndsLoop(body, stack, Len(stack) - 1, d.break_end_block),
         stack' = Append(Callers, top), context' = d,
         pc' = IF d.assertion_failed THEN "assert_failed" ELSE "generate",
         UNCHANGED <<body, has_return, child_scopes>>
  PROVE  GeneratorGoesOn
<1>1. /\ top \in Calls
      /\ top.path = Top.path
      /\ top.variable_scope = Top.variable_scope
      /\ top.n = Top.n + 1
      /\ top.within = 0
      /\ top.unreachable = u
      /\ BoundedCall(top, context.block_count)
  BY NextCall
<1>2. context.block_count \in Nat /\ d.block_count \in Nat /\ context.block_count <= d.block_count
  BY ContextContinues DEF Good, Contexts, Continues
<1>3. BoundedCall(top, d.block_count)
  BY <1>1, <1>2, BoundsGrow
<1>4. ~ AtEnd
  BY DEF Generating
<1>5. /\ TopOf(stack).n <= Len(ListOf(body, TopOf(stack)))
      /\ ~ (TopOf(stack).within < BodyCount(StatementOf(body, TopOf(stack))))
      /\ Top = TopOf(stack)
  BY <1>4, TopIsKnown, CurrentIsKnown
<1>6. Proceeding(body, child_scopes, stack, context, top, d)
  BY <1>1, <1>3, <1>5 DEF Proceeding, Continues, PendingOfCallers
<1>7. GeneratorInv(body, child_scopes, stack, context)' /\ ~ d.assertion_failed
  BY <1>6, ProceedingStep
<1> QED BY <1>7 DEF GeneratorGoesOn

(* The same, where nothing becomes unreachable.                            *)
LEMMA GoesOnReachably ==
  ASSUME Inv, Generating, ~ Top.unreachable, Current.kind # "return",
         ~ (Top.within < BodyCount(Current)),
         NEW d, Good(body, child_scopes, d, PendingOfCallers),
         IsOpen(d), Continues(context, d),
         EndsLoop(body, stack, Len(stack) - 1, d.break_end_block),
         Proceed(Top), Commit(d)
  PROVE  GeneratorGoesOn
<1> DEFINE top == [[Top EXCEPT !.unreachable = FALSE] EXCEPT !.n = Top.n + 1, !.within = 0]
<1>1. [Top EXCEPT !.unreachable = FALSE] = Top
  BY TopIsKnown DEF Calls
<1>2. stack' = Append(Callers, top)
  BY <1>1 DEF Proceed
<1>3. top \in Calls /\ top.path = Top.path /\ top.n = Top.n + 1 /\ top.within = 0 /\ ~ top.unreachable
  BY NextCall
<1> HIDE DEF top
<1>4. LeftRightly(body, top, Len(stack) = 1)
  BY <1>3, ReachesNext
<1> QED BY <1>2, <1>4, GoesOn DEF Commit, top

(* A statement without lists has none left.                                *)
LEMMA KindsWithoutLists ==
  ASSUME Inv, Generating, Current.kind \notin {"if", "while", "for"}
  PROVE  ~ (Top.within < BodyCount(Current))
<1>1. ~ AtEnd
  BY DEF Generating
<1>2. BodyCount(Current) = 0
  BY <1>1, CurrentIsKnown, BodyCountOf
<1> QED BY <1>2, TopIsKnown

(* A declaration is passed over, before and after the list was left.       *)
LEMMA DeclarationStep ==
  ASSUME Inv, Declaration
  PROVE  GeneratorGoesOn
<1>1. Generating /\ Current.kind = "declaration" /\ Proceed(Top)
      /\ UNCHANGED <<body, has_return, pc, child_scopes, context, at>>
  BY DEF Declaration
<1>2. ~ (Top.within < BodyCount(Current)) /\ Top.within = 0
  <2>1. ~ AtEnd
    BY <1>1 DEF Generating
  <2>2. BodyCount(Current) = 0
    BY <1>1, <2>1, CurrentIsKnown, BodyCountOf
  <2> QED BY <2>1, <2>2, CurrentIsKnown, TopIsKnown
<1> DEFINE u == Top.unreachable
           top == [[Top EXCEPT !.unreachable = u] EXCEPT !.n = Top.n + 1, !.within = 0]
<1>3. u \in BOOLEAN /\ [Top EXCEPT !.unreachable = u] = Top
  BY TopIsKnown DEF Calls
<1>4. stack' = Append(Callers, top)
  BY <1>1, <1>3 DEF Proceed
<1>5. /\ top \in Calls
      /\ top.path = Top.path
      /\ top.n = Top.n + 1
      /\ top.within = 0
      /\ top.unreachable = u
  BY <1>1, <1>3, NextCall
<1>6. LeftRightly(body, top, Len(stack) = 1)
  <2> HIDE DEF top
  <2> QED BY <1>1, <1>5, ReachesNext
<1>7. IsOpen(context) <=> ~ u
  BY <1>1, <1>2, GeneratingIs
<1> HIDE DEF u, top
<1>8. PendingOf(body, Top) = {} /\ ~ LoopCall(body, Top)
  BY <1>2 DEF PendingOf, LoopCall
<1>9. PendingOfCallers \cup PendingOf(body, Top) = PendingOfCallers
  BY <1>8
<1>10. /\ Good(body, child_scopes, context, PendingOfCallers)
       /\ EndsLoop(body, stack, Len(stack) - 1, context.break_end_block)
  BY <1>1, <1>8, <1>9, GeneratingIs
<1>11. pc = "generate" /\ ~ context.assertion_failed
  BY <1>1, <1>10 DEF Generating, Good
<1>12. Continues(context, context)
  BY <1>1, ContextContinues
<1> QED
  BY <1>1, <1>2, <1>3, <1>4, <1>6, <1>7, <1>10, <1>11, <1>12, GoesOn DEF top

(* An instruction that leads nowhere is emitted at the beginning of a      *)
(* statement.                                                              *)
LEMMA EmitsAtBeginning ==
  ASSUME Inv, NEW kind, Begins(kind), NEW i \in Instructions,
         LeadTo(<<i>>, PendingOfCallers)
  PROVE  /\ Good(body, child_scopes, Emit(context, i), PendingOfCallers)
         /\ IsOpen(Emit(context, i)) <=> i.kind \notin Terminators
         /\ Continues(context, Emit(context, i))
         /\ EndsLoop(body, stack, Len(stack) - 1, Emit(context, i).break_end_block)
         /\ Emit(context, i).block_count = context.block_count
         /\ Emit(context, i).break_end_block = context.break_end_block
         /\ Emit(context, i).instructions # <<>>
<1>1. Generating
  BY DEF Begins
<1>2. LeadTo(<<i>>, Known(context, PendingOfCallers))
  BY DEF LeadTo, Known
<1> DEFINE d == Emit(context, i)
<1>3. /\ Good(body, child_scopes, d, PendingOfCallers)
      /\ IsOpen(d) <=> i.kind \notin Terminators
      /\ d.instructions # <<>>
      /\ EmittedBy(d) = EmittedBy(context)
      /\ d.current_block = context.current_block
      /\ d.block_count = context.block_count
      /\ d.break_end_block = context.break_end_block
      /\ d.next_child_scope_index = context.next_child_scope_index
  BY <1>2, BeginningIs, EmitStaysGood
<1> HIDE DEF d
<1>4. Continues(context, d)
  BY <1>1, <1>3, ContextContinues DEF Continues
<1>5. EndsLoop(body, stack, Len(stack) - 1, d.break_end_block)
  BY <1>3, BeginningIs
<1> QED BY <1>3, <1>4, <1>5 DEF d

(* Instructions that lead nowhere.                                         *)
LEMMA PlainInstructions ==
  ASSUME Inv, NEW part \in Int, NEW kind \in {"other", "return"}
  PROVE  /\ Instruction(kind, Here(part), <<>>) \in Instructions
         /\ Instruction(kind, Here(part), <<>>).kind = kind
         /\ Instruction(kind, Here(part), <<>>).targets = <<>>
<1> DEFINE none == <<>>
<1>1. none \in Seq(Nat)
  OBVIOUS
<1> HIDE DEF none
<1>2. /\ Instruction(kind, Here(part), none) \in Instructions
      /\ Instruction(kind, Here(part), none).kind = kind
      /\ Instruction(kind, Here(part), none).targets = none
  BY <1>1, InstructionsAreTyped
<1> QED BY <1>2 DEF none

(* An effect is emitted into an open block, which stays open.              *)
LEMMA EffectStep ==
  ASSUME Inv, Effect
  PROVE  GeneratorGoesOn
<1> DEFINE i == Instruction("other", Here(0), <<>>)
           d == Emit(context, i)
<1>1. Begins("effect") /\ Begun = context
  BY BeginningIs DEF Effect
<1>2. i \in Instructions /\ i.kind = "other" /\ i.targets = <<>>
  BY PlainInstructions
<1>3. Commit(d) /\ Proceed(Top)
  BY <1>1 DEF Effect
<1> HIDE DEF i
<1>4. LeadTo(<<i>>, PendingOfCallers) /\ i.kind \notin Terminators
  BY <1>2 DEF LeadTo, Terminators
<1>5. /\ Good(body, child_scopes, d, PendingOfCallers)
      /\ IsOpen(d)
      /\ Continues(context, d)
      /\ EndsLoop(body, stack, Len(stack) - 1, d.break_end_block)
  BY <1>1, <1>2, <1>4, EmitsAtBeginning
<1>6. Generating /\ ~ Top.unreachable /\ Current.kind = "effect"
  BY <1>1 DEF Begins
<1>7. ~ (Top.within < BodyCount(Current))
  BY <1>6, KindsWithoutLists
<1> HIDE DEF d
<1> QED BY <1>3, <1>5, <1>6, <1>7, GoesOnReachably

(* Without an instruction, nothing changes.                                *)
LEMMA NothingStep ==
  ASSUME Inv, Nothing
  PROVE  GeneratorGoesOn
<1>1. Begins("nothing") /\ Begun = context
  BY BeginningIs DEF Nothing
<1>2. Commit(context) /\ Proceed(Top)
  BY <1>1 DEF Nothing
<1>3. Generating /\ ~ Top.unreachable /\ Current.kind = "nothing"
  BY <1>1 DEF Begins
<1>4. /\ Good(body, child_scopes, context, PendingOfCallers)
      /\ IsOpen(context)
      /\ EndsLoop(body, stack, Len(stack) - 1, context.break_end_block)
  BY <1>1, BeginningIs
<1>5. Continues(context, context)
  BY <1>3, ContextContinues
<1>6. ~ (Top.within < BodyCount(Current))
  BY <1>3, KindsWithoutLists
<1> QED BY <1>2, <1>3, <1>4, <1>5, <1>6, GoesOnReachably

(* A return or a break ends its list with the instruction i.               *)
LEMMA Leaves ==
  ASSUME Inv, NEW kind \in Leaving, Begins(kind), kind = "break" => Len(stack) # 1,
         NEW i \in Instructions, LeadTo(<<i>>, PendingOfCallers), i.kind \in Terminators,
         Commit(Emit(Begun, i)), Leave
  PROVE  GeneratorGoesOn
<1> DEFINE d == Emit(context, i)
           top == [[Top EXCEPT !.unreachable = TRUE] EXCEPT !.n = Top.n + 1, !.within = 0]
<1>1. Generating /\ Current.kind = kind /\ Begun = context /\ Top.within = 0
  BY BeginningIs DEF Begins
<1>2. /\ Good(body, child_scopes, d, PendingOfCallers)
      /\ ~ IsOpen(d)
      /\ Continues(context, d)
      /\ EndsLoop(body, stack, Len(stack) - 1, d.break_end_block)
  BY EmitsAtBeginning
<1>3. Commit(d)
  BY <1>1
<1>4. LeavesList(Current.kind) = TRUE
  BY <1>1 DEF LeavesList, Leaving
<1>5. stack' = Append(Callers, top)
  <2>1. Proceed([Top EXCEPT !.unreachable = TRUE])
    BY <1>4 DEF Leave
  <2> QED BY <2>1 DEF Proceed
<1>6. /\ top \in Calls
      /\ top.path = Top.path
      /\ top.n = Top.n + 1
      /\ top.within = 0
      /\ top.unreachable
  BY <1>1, NextCall
<1> HIDE DEF d, top
<1>7. LeftRightly(body, top, Len(stack) = 1)
  <2>1. ListOf(body, top) = ListOf(body, Top) /\ ListOf(body, Top)[Top.n] = Current
        /\ Top.n \in Nat \ {0} /\ top.n - 1 = Top.n
    BY <1>6, TopIsKnown DEF ListOf, StatementOf
  <2>2. Current.kind \in (IF Len(stack) = 1 THEN {"return"} ELSE Leaving)
    BY <1>1 DEF Leaving
  <2>3. HasLeft(ListOf(body, top), top.n, IF Len(stack) = 1 THEN {"return"} ELSE Leaving)
    <3>1. Top.n \in 1 .. top.n - 1 /\ \A x \in Top.n + 1 .. top.n - 1 : FALSE
      BY <2>1
    <3> QED BY <2>1, <2>2, <3>1 DEF HasLeft
  <2> QED BY <1>6, <2>3 DEF LeftRightly
<1>8. ~ (Top.within < BodyCount(Current))
  BY <1>1, KindsWithoutLists DEF Leaving
<1> QED BY <1>1, <1>2, <1>3, <1>5, <1>7, <1>8, GoesOn DEF Commit, top

(* A return ends its list.                                                 *)
LEMMA ReturnStep ==
  ASSUME Inv, Return
  PROVE  GeneratorGoesOn
<1> DEFINE i == Instruction("return", Here(0), <<>>)
<1>1. i \in Instructions /\ i.kind = "return" /\ i.targets = <<>>
  BY PlainInstructions
<1>2. Begins("return") /\ Commit(Emit(Begun, i)) /\ Leave
  BY DEF Return
<1> HIDE DEF i
<1>3. LeadTo(<<i>>, PendingOfCallers) /\ i.kind \in Terminators
  BY <1>1 DEF LeadTo, Terminators
<1> QED BY <1>1, <1>2, <1>3, Leaves DEF Leaving

(* The end of a loop that is under way is pending.                         *)
LEMMA BreakTargetIsPending ==
  ASSUME Inv, NEW block \in Nat, block # 0, EndsLoop(body, stack, Len(stack) - 1, block)
  PROVE  block \in PendingOfCallers /\ Len(stack) # 1
<1>1. PICK j \in 1 .. Len(stack) - 1 : LoopCall(body, stack[j]) /\ block = stack[j].end_block
  BY DEF EndsLoop
<1>2. stack[j] \in Calls
  BY <1>1, TopIsKnown
<1>3. stack[j].within > 0
  BY <1>1 DEF LoopCall
<1>4. block \in PendingOf(body, stack[j])
  BY <1>1, <1>2, <1>3, PendingBlocks
<1>5. Len(stack) # 1
  <2>1. PICK m \in Nat : m = Len(stack)
    BY TopIsKnown
  <2>2. j \in 1 .. m - 1
    BY <2>1
  <2> QED BY <2>1, <2>2
<1> QED BY <1>1, <1>4, <1>5 DEF PendingOfCallers, PendingOfFirst

(* So does a break, in a loop only, and it leads to the end of that loop.  *)
LEMMA BreakStep ==
  ASSUME Inv, Break
  PROVE  GeneratorGoesOn
<1> DEFINE block == context.break_end_block
           i == Jump(block)
<1>1. Begins("break") /\ block # 0 /\ Begun = context /\ Commit(Emit(Begun, i)) /\ Leave
  BY BeginningIs DEF Break
<1>2. block \in Nat
  BY DEF Inv, Contexts
<1>3. block \in PendingOfCallers /\ Len(stack) # 1
  BY <1>1, <1>2, BeginningIs, BreakTargetIsPending
<1> HIDE DEF block
<1>4. i \in Instructions /\ i.kind = "jump" /\ i.targets = <<block>>
  <2>1. <<>> \in Paths
    BY DEF Paths
  <2>2. End \in Points
    BY <2>1 DEF End, Point, Points
  <2> QED BY <1>2, <2>2 DEF Jump, Instruction, Instructions
<1> HIDE DEF i
<1>5. LeadTo(<<i>>, PendingOfCallers) /\ i.kind \in Terminators
  BY <1>3, <1>4 DEF LeadTo, Terminators
<1> QED BY <1>1, <1>3, <1>4, <1>5, Leaves DEF Leaving

(* The k-th list is entered with the variables of t and the context d.     *)
LEMMA Enters ==
  ASSUME Inv, Generating, NEW t \in Calls, NEW k \in Nat, k = Top.within + 1, k <= BodyCount(Current),
         t.path = Top.path, t.variable_scope = Top.variable_scope, t.n = Top.n, ~ t.unreachable,
         NEW top, top = [t EXCEPT !.within = k],
         NEW d, Good(body, child_scopes, d, PendingOfCallers \cup PendingOf(body, top)),
         IsOpen(d), Continues(context, d),
         LoopIsKnown(body, stack, Len(stack), top, EmittedBy(d)),
         BranchesLead(body, top),
         \/ EndsLoop(body, stack, Len(stack) - 1, d.break_end_block)
         \/ LoopCall(body, top) /\ d.break_end_block = top.end_block,
         BoundedCall(t, d.block_count),
         NEW scope \in Paths, Enter(t, k, scope, NextScope), Commit(TakeScope(d))
  PROVE  GeneratorGoesOn
<1>1. /\ top \in Calls
      /\ top.path = Top.path
      /\ top.variable_scope = Top.variable_scope
      /\ top.n = Top.n
      /\ top.within = k
      /\ ~ top.unreachable
      /\ BoundedCall(top, d.block_count)
  BY DEF Calls, BoundedCall
<1>2. ListOf(body, top) = List /\ StatementOf(body, top) = Current /\ Top.n <= Len(List)
      /\ Top = TopOf(stack)
  <2>1. ~ AtEnd
    BY DEF Generating
  <2> QED BY <1>1, <2>1, TopIsKnown, CurrentIsKnown DEF ListOf, StatementOf
<1>3. Entering(body, child_scopes, stack, context, top, d)
  BY <1>1, <1>2 DEF Entering, Continues, PendingOfCallers
<1>4. [top EXCEPT !.within = top.within] = [t EXCEPT !.within = k]
  BY <1>1 DEF Calls
<1>5. Enter(top, top.within, scope, NextScope)
  BY <1>1, <1>4 DEF Enter
<1>6. context' = TakeScope(d) /\ UNCHANGED <<body, has_return, child_scopes>>
  BY DEF Commit
<1>7. GeneratorInv(body, child_scopes, stack, context)' /\ ~ TakeScope(d).assertion_failed
  BY <1>3, <1>5, <1>6, EnteringStep
<1> QED BY <1>6, <1>7 DEF GeneratorGoesOn, Commit

(* Blocks are allocated.                                                   *)
LEMMA AllocateStaysGood ==
  ASSUME NEW b, NEW scopes, NEW c, NEW pending, Good(b, scopes, c, pending), NEW count \in Nat,
         NEW pending2, pending \subseteq pending2
  PROVE  LET d == [c EXCEPT !.block_count = count]
         IN  /\ Good(b, scopes, d, pending2)
             /\ d \in Contexts
             /\ IsOpen(d) <=> IsOpen(c)
             /\ EmittedBy(d) = EmittedBy(c)
             /\ d.instructions = c.instructions
             /\ d.current_block = c.current_block
             /\ d.block_count = count
             /\ d.break_end_block = c.break_end_block
             /\ d.next_child_scope_index = c.next_child_scope_index
<1> DEFINE d == [c EXCEPT !.block_count = count]
<1>1. c \in Contexts
  BY DEF Good
<1>2. d \in Contexts
  BY <1>1 DEF Contexts
<1>3. /\ d.blocks = c.blocks
      /\ d.instructions = c.instructions
      /\ d.current_block = c.current_block
      /\ d.assertion_failed = c.assertion_failed
  BY <1>1 DEF Contexts
<1>4. /\ d.block_count = count
      /\ d.break_end_block = c.break_end_block
      /\ d.next_child_scope_index = c.next_child_scope_index
  BY <1>1 DEF Contexts
<1> HIDE DEF d
<1>5. Good(b, scopes, d, pending2) /\ (IsOpen(d) <=> IsOpen(c)) /\ EmittedBy(d) = EmittedBy(c)
  BY <1>2, <1>3, CountersDoNotMatter
<1> QED BY <1>2, <1>3, <1>4, <1>5 DEF d

(* The target of break is another one.                                     *)
LEMMA BreakTargetStaysGood ==
  ASSUME NEW b, NEW scopes, NEW c, NEW pending, Good(b, scopes, c, pending), NEW block \in Nat
  PROVE  LET d == [c EXCEPT !.break_end_block = block]
         IN  /\ Good(b, scopes, d, pending)
             /\ d \in Contexts
             /\ IsOpen(d) <=> IsOpen(c)
             /\ EmittedBy(d) = EmittedBy(c)
             /\ d.current_block = c.current_block
             /\ d.block_count = c.block_count
             /\ d.break_end_block = block
             /\ d.next_child_scope_index = c.next_child_scope_index
<1> DEFINE d == [c EXCEPT !.break_end_block = block]
<1>1. c \in Contexts
  BY DEF Good
<1>2. d \in Contexts
  BY <1>1 DEF Contexts
<1>3. /\ d.blocks = c.blocks
      /\ d.instructions = c.instructions
      /\ d.current_block = c.current_block
      /\ d.assertion_failed = c.assertion_failed
  BY <1>1 DEF Contexts
<1>4. /\ d.block_count = c.block_count
      /\ d.break_end_block = block
      /\ d.next_child_scope_index = c.next_child_scope_index
  BY <1>1 DEF Contexts
<1> HIDE DEF d
<1>5. Good(b, scopes, d, pending) /\ (IsOpen(d) <=> IsOpen(c)) /\ EmittedBy(d) = EmittedBy(c)
  BY <1>2, <1>3, CountersDoNotMatter
<1> QED BY <1>2, <1>3, <1>4, <1>5 DEF d

(* Where a branch leads.                                                   *)
LeadsInto(instruction, pending, block) ==
    LeadTo(<<instruction>>, pending \cup {block})

(* An open block ends with a branch, and the block is next.                *)
LEMMA BranchStaysGood ==
  ASSUME NEW b, NEW scopes, NEW c, NEW pending, Good(b, scopes, c, pending), IsOpen(c),
         NEW branch \in Instructions, branch.kind = "branch", NEW block \in Nat,
         LeadsInto(branch, pending, block)
  PROVE  BeginsBlock(b, scopes, c, block, pending, change_block(Emit(c, branch), block))
<1> DEFINE p == pending \cup {block}
           e == Emit(c, branch)
           d == change_block(e, block)
<1>1. pending \subseteq p /\ Settles(p, pending, block)
  BY DEF Settles
<1>2. LeadTo(<<branch>>, p)
  BY DEF LeadsInto
<1> HIDE DEF p
<1>3. Good(b, scopes, c, p)
  <2>1. c \in Contexts
    BY DEF Good
  <2> QED BY <1>1, <2>1, CountersDoNotMatter
<1>4. LeadTo(<<branch>>, Known(c, p))
  BY <1>2 DEF LeadTo, Known
<1>5. branch.kind \in Terminators
  BY DEF Terminators
<1>6. /\ Good(b, scopes, e, p)
      /\ ~ IsOpen(e)
      /\ EmittedBy(e) = EmittedBy(c)
      /\ e.current_block = c.current_block
      /\ e.block_count = c.block_count
      /\ e.break_end_block = c.break_end_block
      /\ e.next_child_scope_index = c.next_child_scope_index
  BY <1>3, <1>4, <1>5, EmitStaysGood
<1> HIDE DEF e
<1>7. BeginsBlock(b, scopes, e, block, pending, d)
  BY <1>1, <1>6, ChangeStaysGood
<1> HIDE DEF d
<1>8. BeginsBlock(b, scopes, c, block, pending, d)
  BY <1>6, <1>7 DEF BeginsBlock
<1> QED BY <1>8 DEF d, e

(* enter_new_block, at the start of a block or not.                        *)
LEMMA NewBlockStaysGood ==
  ASSUME NEW b, NEW scopes, NEW c, NEW pending, Good(b, scopes, c, pending), IsOpen(c),
         c.current_block > 0, c.current_block <= c.block_count
  PROVE  LET d == enter_new_block(c)
         IN  /\ Good(b, scopes, d, pending)
             /\ IsOpen(d)
             /\ EmittedBy(c) \subseteq EmittedBy(d)
             /\ c.block_count <= d.block_count
             /\ d.current_block \in Nat
             /\ d.current_block > 0
             /\ d.current_block <= d.block_count
             /\ d.break_end_block = c.break_end_block
             /\ d.next_child_scope_index = c.next_child_scope_index
<1>1. c \in Contexts /\ c.block_count \in Nat /\ c.current_block \in Nat
  BY DEF Good, Contexts
<1>2. CASE c.instructions = <<>>
  BY <1>1, <1>2 DEF enter_new_block
<1>3. CASE c.instructions # <<>>
  <2> DEFINE new == c.block_count + 1
             p == pending \cup {new}
             r == [c EXCEPT !.block_count = new]
             e == FinishWithJump(r, new)
             d == change_block(e, new)
  <2>1. new \in Nat /\ new > 0 /\ c.block_count <= new /\ pending \subseteq p /\ p \subseteq pending \cup {new}
    BY <1>1
  <2>2. enter_new_block(c) = StartBlock(e, new)
    BY <1>3 DEF enter_new_block
  <2>3. new \in p
    OBVIOUS
  <2> HIDE DEF new, p
  <2>4. /\ Good(b, scopes, r, p)
        /\ EmittedBy(r) = EmittedBy(c)
        /\ r.current_block = c.current_block
        /\ r.block_count = new
        /\ r.break_end_block = c.break_end_block
        /\ r.next_child_scope_index = c.next_child_scope_index
    BY <2>1, AllocateStaysGood
  <2> HIDE DEF r
  <2>5. new \in Known(r, p)
    BY <2>3 DEF Known
  <2>6. /\ Good(b, scopes, e, p)
        /\ ~ IsOpen(e)
        /\ EmittedBy(e) = EmittedBy(r)
        /\ e.block_count = new
        /\ e.break_end_block = r.break_end_block
        /\ e.next_child_scope_index = r.next_child_scope_index
    BY <2>1, <2>4, <2>5, FinishStaysGood
  <2>10. Settles(p, pending, new)
    BY <2>1 DEF Settles
  <2> HIDE DEF e
  <2>7. StartBlock(e, new) = d
    <3>1. e \in Contexts
      BY <2>6 DEF Good
    <3>2. Assert(~ does_current_block_need_finisher(e), e) = e
      BY <2>6, <3>1, AssertThatHolds DEF IsOpen
    <3> QED BY <3>2 DEF change_block
  <2>8. /\ Good(b, scopes, d, pending)
        /\ IsOpen(d)
        /\ EmittedBy(d) = EmittedBy(e) \cup {e.current_block}
        /\ d.current_block = new
        /\ d.block_count = e.block_count
        /\ d.break_end_block = e.break_end_block
        /\ d.next_child_scope_index = e.next_child_scope_index
    <3>1. BeginsBlock(b, scopes, e, new, pending, d)
      BY <2>1, <2>6, <2>10, ChangeStaysGood
    <3> QED BY <3>1 DEF BeginsBlock
  <2> HIDE DEF d
  <2>9. /\ EmittedBy(c) \subseteq EmittedBy(d)
        /\ c.block_count <= d.block_count
        /\ d.current_block \in Nat
        /\ d.current_block > 0
        /\ d.current_block <= d.block_count
    BY <2>1, <2>4, <2>6, <2>8
  <2> QED BY <2>2, <2>4, <2>6, <2>7, <2>8, <2>9
<1> QED BY <1>2, <1>3

(* The k-th condition of an if, in the open block of c.                    *)
LEMMA ConditionStep ==
  ASSUME Inv, Generating, Current.kind = "if", ~ Top.unreachable,
         NEW k \in Nat, k = Top.within + 1, k <= Conditions(Current),
         NEW end_block \in Nat, end_block > 0,
         NEW c, Good(body, child_scopes, c, PendingOfCallers \cup {end_block}), IsOpen(c),
         Continues(context, c), c.break_end_block = context.break_end_block,
         end_block <= c.block_count,
         EndsLoop(body, stack, Len(stack) - 1, context.break_end_block),
         NEW if_scope \in Paths, Condition(c, k, end_block, if_scope)
  PROVE  GeneratorGoesOn
<1> DEFINE count == c.block_count
           next_block == BlockAfter(IsLast(k), end_block, count + 1)
           body_block == count + 2
           branch == Instruction("branch", Here(k), <<body_block, next_block>>)
           pending2 == PendingOfCallers \cup {end_block, next_block}
           e == [c EXCEPT !.block_count = body_block]
           d == change_block(Emit(e, branch), body_block)
           t == [Top EXCEPT !.end_block = end_block, !.next_block = next_block,
                            !.if_scope = if_scope]
           top == [t EXCEPT !.within = k]
<1>1. Commit(TakeScope(d)) /\ Enter(t, k, if_scope, NextScope)
  BY DEF Condition
<1>2. count \in Nat /\ body_block \in Nat /\ count <= body_block /\ body_block > 0
  BY DEF Good, Contexts
<1>3. /\ next_block \in Nat
      /\ next_block > 0
      /\ next_block <= body_block
      /\ end_block <= body_block
      /\ IsLast(k) => next_block = end_block
  BY <1>2 DEF BlockAfter
<1>4. branch \in Instructions /\ branch.kind = "branch" /\ branch.targets = <<body_block, next_block>>
  <2> DEFINE targets == <<body_block, next_block>>
  <2>1. targets \in Seq(Nat)
    BY <1>2, <1>3
  <2> HIDE DEF targets
  <2>2. /\ Instruction("branch", Here(k), targets) \in Instructions
        /\ Instruction("branch", Here(k), targets).kind = "branch"
        /\ Instruction("branch", Here(k), targets).targets = targets
    BY <2>1, InstructionsAreTyped
  <2> QED BY <2>2 DEF targets
<1>5. PendingOfCallers \cup {end_block} \subseteq pending2
  OBVIOUS
<1> HIDE DEF branch, next_block, body_block, count
<1>6. LeadsInto(branch, pending2, body_block)
  BY <1>4 DEF LeadTo, LeadsInto
<1> HIDE DEF pending2
<1>7. /\ Good(body, child_scopes, e, pending2)
      /\ IsOpen(e)
      /\ EmittedBy(e) = EmittedBy(c)
      /\ e.block_count = body_block
      /\ e.break_end_block = c.break_end_block
      /\ e.next_child_scope_index = c.next_child_scope_index
  BY <1>2, <1>5, AllocateStaysGood
<1> HIDE DEF e
<1>8. /\ Good(body, child_scopes, d, pending2)
      /\ IsOpen(d)
      /\ EmittedBy(e) \subseteq EmittedBy(d)
      /\ d.current_block = body_block
      /\ d.block_count = body_block
      /\ d.break_end_block = e.break_end_block
      /\ d.next_child_scope_index = e.next_child_scope_index
  <2>1. BeginsBlock(body, child_scopes, e, body_block, pending2, d)
    BY <1>2, <1>4, <1>6, <1>7, BranchStaysGood
  <2> QED BY <1>7, <2>1 DEF BeginsBlock
<1> HIDE DEF d
<1>9. context.block_count \in Nat /\ context.break_end_block \in Nat /\ c.break_end_block \in Nat
      /\ context.block_count <= count /\ c.break_end_block <= count
  BY ContextContinues DEF Continues, count
<1>10. Continues(context, d)
  BY <1>2, <1>7, <1>8, <1>9 DEF Continues
<1>11. /\ t \in Calls
       /\ t.path = Top.path
       /\ t.variable_scope = Top.variable_scope
       /\ t.n = Top.n
       /\ ~ t.unreachable
       /\ t.end_block = end_block
       /\ t.next_block = next_block
       /\ t.condition_block = Top.condition_block
       /\ t.old_break_end_block = Top.old_break_end_block
  <2>1. Top \in Calls
    BY TopIsKnown
  <2> QED BY <1>3, <2>1 DEF Calls
<1> HIDE DEF t
<1>12. /\ top \in Calls
       /\ top.path = t.path
       /\ top.n = t.n
       /\ top.within = k
       /\ top.end_block = end_block
       /\ top.next_block = next_block
  BY <1>11 DEF Calls
<1> HIDE DEF top
<1>13. BoundedCall(t, d.block_count)
  <2>1. BoundedCall(Top, body_block)
    <3>1. BoundedCall(Top, context.block_count)
      BY GeneratingIs
    <3>2. context.block_count <= body_block
      BY <1>2, <1>9
    <3> QED BY <1>2, <1>9, <3>1, <3>2, TopIsKnown, BoundsGrow
  <2> QED BY <1>3, <1>8, <1>11, <2>1 DEF BoundedCall
<1>14. StatementOf(body, top) = Current
  BY <1>11, <1>12, TopIsKnown DEF StatementOf, ListOf
<1>15. k > 0 /\ k <= BodyCount(Current)
  <2>1. ~ AtEnd
    BY DEF Generating
  <2>2. Conditions(Current) \in Nat
        /\ BodyCount(Current) = IF HasElse(Current) THEN Conditions(Current) + 1 ELSE Conditions(Current)
    BY <2>1, CurrentIsKnown, BodyCountOf
  <2> QED BY <2>2, TopIsKnown
<1>16. PendingOf(body, top) = {end_block, next_block}
  BY <1>12, <1>14, <1>15 DEF PendingOf
<1>17. pending2 = PendingOfCallers \cup PendingOf(body, top)
  BY <1>16 DEF pending2
<1>18. ~ LoopCall(body, top)
  BY <1>14 DEF LoopCall, IsLoop
<1>19. LoopIsKnown(body, stack, Len(stack), top, EmittedBy(d))
  BY <1>18 DEF LoopIsKnown
<1>20. BranchesLead(body, top)
  BY <1>3, <1>12, <1>14, <1>16 DEF BranchesLead, IsLast
<1>21. EndsLoop(body, stack, Len(stack) - 1, d.break_end_block)
  BY <1>7, <1>8
<1>22. Good(body, child_scopes, d, PendingOfCallers \cup PendingOf(body, top))
  BY <1>8, <1>17
<1> QED
  BY <1>1, <1>8, <1>10, <1>11, <1>13, <1>15, <1>19, <1>20, <1>21, <1>22, Enters DEF top

(* An if, from its first condition.                                        *)
LEMMA IfStep ==
  ASSUME Inv, If
  PROVE  GeneratorGoesOn
<1> DEFINE end_block == context.block_count + 1
           c == [context EXCEPT !.block_count = end_block]
<1>1. Begins("if") /\ Begun = context
  BY BeginningIs DEF If
<1>2. Condition(c, 1, end_block, NextScope)
  BY <1>1 DEF If
<1>3. /\ Generating
      /\ Current.kind = "if"
      /\ Top.within = 0
      /\ ~ Top.unreachable
      /\ IsOpen(context)
      /\ Good(body, child_scopes, context, PendingOfCallers)
      /\ EndsLoop(body, stack, Len(stack) - 1, context.break_end_block)
  BY <1>1, BeginningIs DEF Begins
<1>4. /\ context.block_count \in Nat
      /\ end_block \in Nat
      /\ end_block > 0
      /\ context.block_count <= end_block
      /\ context.current_block \in Nat
      /\ context.break_end_block \in Nat
      /\ context.current_block > 0
      /\ context.current_block <= context.block_count
      /\ context.break_end_block <= context.block_count
  BY <1>3, ContextContinues
<1>5. 1 <= Conditions(Current)
  <2>1. ~ AtEnd
    BY <1>3 DEF Generating
  <2> QED BY <1>3, <2>1, CurrentIsKnown, BodyCountOf
<1> HIDE DEF end_block
<1>6. /\ Good(body, child_scopes, c, PendingOfCallers \cup {end_block})
      /\ IsOpen(c)
      /\ EmittedBy(c) = EmittedBy(context)
      /\ c.current_block = context.current_block
      /\ c.block_count = end_block
      /\ c.break_end_block = context.break_end_block
      /\ c.next_child_scope_index = context.next_child_scope_index
  <2>1. PendingOfCallers \subseteq PendingOfCallers \cup {end_block}
    OBVIOUS
  <2> QED BY <1>3, <1>4, <2>1, AllocateStaysGood
<1> HIDE DEF c
<1>7. Continues(context, c)
  BY <1>4, <1>6 DEF Continues
<1>8. end_block <= c.block_count
  BY <1>4, <1>6
<1>9. 1 \in Nat /\ 1 = Top.within + 1 /\ NextScope \in Paths
  BY <1>3, NextScopeIsPath
<1> QED BY <1>2, <1>3, <1>4, <1>5, <1>6, <1>7, <1>8, <1>9, ConditionStep

(* After the list within a statement.                                      *)
LEMMA ResumingIs ==
  ASSUME Inv, NEW kind, Resumes(kind)
  PROVE  /\ Generating
         /\ Current.kind = kind
         /\ Top.within > 0
         /\ Top.within \in Nat
         /\ ~ Top.unreachable
         /\ Top.end_block \in Nat
         /\ Top.end_block > 0
         /\ Top.end_block <= context.block_count
         /\ Top.end_block \in PendingOf(body, Top)
         /\ Good(body, child_scopes, context, PendingOfCallers \cup PendingOf(body, Top))
         /\ kind = "if" => EndsLoop(body, stack, Len(stack) - 1, context.break_end_block)
<1>1. Generating /\ Current.kind = kind /\ Top.within > 0
  BY DEF Resumes
<1>2. Top \in Calls /\ Top.within \in Nat /\ Top.end_block \in Nat
  BY TopIsKnown DEF Calls
<1>3. Top.end_block \in PendingOf(body, Top)
  BY <1>1, <1>2, PendingBlocks
<1>4. BranchesLead(body, Top) /\ BoundedCall(Top, context.block_count)
  BY <1>1, GeneratingIs
<1>5. Top.end_block > 0
  BY <1>2, <1>3, <1>4 DEF BranchesLead
<1>6. Top.end_block <= context.block_count
  BY <1>4 DEF BoundedCall
<1>7. /\ Good(body, child_scopes, context, PendingOfCallers \cup PendingOf(body, Top))
      /\ ~ Top.unreachable
  BY <1>1, GeneratingIs
<1>8. kind = "if" => EndsLoop(body, stack, Len(stack) - 1, context.break_end_block)
  <2>1. SUFFICES ASSUME kind = "if"
                 PROVE  EndsLoop(body, stack, Len(stack) - 1, context.break_end_block)
    OBVIOUS
  <2>2. ~ LoopCall(body, Top)
    BY <1>1, <2>1, TopIsKnown DEF LoopCall, IsLoop
  <2> QED BY <1>1, <2>2, GeneratingIs
<1> QED BY <1>1, <1>2, <1>3, <1>5, <1>6, <1>7, <1>8

(* The current block leads to the end of the statement, or back, and the   *)
(* next one begins in d.                                                   *)
BeginsAfterJump(b, scopes, c, block, pending2, d) ==
    /\ Good(b, scopes, d, pending2)
    /\ IsOpen(d)
    /\ EmittedBy(c) \subseteq EmittedBy(d)
    /\ d.current_block = block
    /\ d.block_count = c.block_count
    /\ d.break_end_block = c.break_end_block
    /\ d.next_child_scope_index = c.next_child_scope_index

LEMMA FinishAndChange ==
  ASSUME NEW b, NEW scopes, NEW c, NEW pending, Good(b, scopes, c, pending),
         NEW target \in Nat, target \in Known(c, pending),
         NEW block \in Nat, NEW pending2, Settles(pending, pending2, block)
  PROVE  BeginsAfterJump(b, scopes, c, block, pending2,
                         change_block(FinishWithJump(c, target), block))
<1> DEFINE e == FinishWithJump(c, target)
           d == change_block(e, block)
<1>1. /\ Good(b, scopes, e, pending)
      /\ ~ IsOpen(e)
      /\ EmittedBy(e) = EmittedBy(c)
      /\ e.block_count = c.block_count
      /\ e.break_end_block = c.break_end_block
      /\ e.next_child_scope_index = c.next_child_scope_index
  BY FinishStaysGood
<1> HIDE DEF e
<1>2. BeginsBlock(b, scopes, e, block, pending2, d)
  BY <1>1, ChangeStaysGood
<1> HIDE DEF d
<1>3. BeginsAfterJump(b, scopes, c, block, pending2, d)
  BY <1>1, <1>2 DEF BeginsBlock, BeginsAfterJump
<1> QED BY <1>3 DEF d, e

(* The next else-if, or the else, of an if.                                *)
LEMMA NextBranch ==
  ASSUME Inv, Resumes("if"), Top.within <= Conditions(Current)
  PROVE  LET d == change_block(FinishWithJump(context, Top.end_block), Top.next_block)
         IN  /\ Good(body, child_scopes, d, PendingOfCallers \cup {Top.end_block})
             /\ IsOpen(d)
             /\ Continues(context, d)
             /\ d.break_end_block = context.break_end_block
             /\ d.block_count = context.block_count
<1> DEFINE pending == PendingOfCallers \cup PendingOf(body, Top)
           pending2 == PendingOfCallers \cup {Top.end_block}
           d == change_block(FinishWithJump(context, Top.end_block), Top.next_block)
<1>1. Top.next_block \in Nat /\ Top \in Calls
  BY TopIsKnown DEF Calls
<1>2. PendingOf(body, Top) = {Top.end_block, Top.next_block}
  BY ResumingIs, TopIsKnown DEF PendingOf
<1>3. Settles(pending, pending2, Top.next_block) /\ Top.end_block \in pending
  BY <1>2 DEF Settles
<1>4. Good(body, child_scopes, context, pending) /\ Top.end_block \in Nat
  BY ResumingIs
<1> HIDE DEF pending, pending2
<1>5. Top.end_block \in Known(context, pending)
  BY <1>3 DEF Known
<1>6. /\ Good(body, child_scopes, d, pending2)
      /\ IsOpen(d)
      /\ EmittedBy(context) \subseteq EmittedBy(d)
      /\ d.current_block = Top.next_block
      /\ d.block_count = context.block_count
      /\ d.break_end_block = context.break_end_block
      /\ d.next_child_scope_index = context.next_child_scope_index
  <2>1. BeginsAfterJump(body, child_scopes, context, Top.next_block, pending2, d)
    BY <1>1, <1>3, <1>4, <1>5, FinishAndChange
  <2> QED BY <2>1 DEF BeginsAfterJump
<1> HIDE DEF d
<1>7. Top.next_block > 0 /\ Top.next_block <= context.block_count
  <2>1. BranchesLead(body, Top) /\ BoundedCall(Top, context.block_count)
    BY ResumingIs, GeneratingIs
  <2> QED BY <1>1, <1>2, <2>1 DEF BranchesLead, BoundedCall
<1>8. Continues(context, d)
  <2>1. context.block_count \in Nat /\ context.break_end_block <= context.block_count
    BY ResumingIs, ContextContinues
  <2> QED BY <1>6, <1>7, <2>1 DEF Continues
<1> QED BY <1>6, <1>8 DEF d, pending2

(* The next else-if begins in the block that its predecessor led to.       *)
LEMMA ElseIfStep ==
  ASSUME Inv, ElseIf
  PROVE  GeneratorGoesOn
<1> DEFINE c == change_block(FinishWithJump(context, Top.end_block), Top.next_block)
           k == Top.within + 1
<1>1. Resumes("if") /\ Top.within < Conditions(Current) /\ Condition(c, k, Top.end_block, Top.if_scope)
  BY DEF ElseIf
<1>2. /\ Generating
      /\ Current.kind = "if"
      /\ ~ Top.unreachable
      /\ Top.within \in Nat
      /\ Top.end_block \in Nat
      /\ Top.end_block > 0
      /\ Top.end_block <= context.block_count
      /\ EndsLoop(body, stack, Len(stack) - 1, context.break_end_block)
  BY <1>1, ResumingIs
<1>3. Conditions(Current) \in Nat
  <2>1. ~ AtEnd
    BY <1>2 DEF Generating
  <2> QED BY <2>1, CurrentIsKnown
<1>4. k \in Nat /\ k <= Conditions(Current) /\ Top.within <= Conditions(Current)
  BY <1>1, <1>2, <1>3
<1>5. /\ Good(body, child_scopes, c, PendingOfCallers \cup {Top.end_block})
      /\ IsOpen(c)
      /\ Continues(context, c)
      /\ c.break_end_block = context.break_end_block
      /\ c.block_count = context.block_count
  BY <1>1, <1>4, NextBranch
<1> HIDE DEF c
<1>6. k = Top.within + 1
  OBVIOUS
<1> HIDE DEF k
<1>7. Top.end_block <= c.block_count /\ Top.if_scope \in Paths
  BY <1>2, <1>5, TopIsKnown DEF Calls
<1> QED BY <1>1, <1>2, <1>4, <1>5, <1>6, <1>7, ConditionStep

(* So does the else.                                                       *)
LEMMA ElseStep ==
  ASSUME Inv, Else
  PROVE  GeneratorGoesOn
<1> DEFINE d == change_block(FinishWithJump(context, Top.end_block), Top.next_block)
           k == Top.within + 1
           top == [Top EXCEPT !.within = k]
<1>1. /\ Resumes("if")
      /\ Top.within = Conditions(Current)
      /\ HasElse(Current)
      /\ Commit(TakeScope(d))
      /\ Enter(Top, k, NextScope, NextScope)
  BY DEF Else
<1>2. /\ Generating
      /\ Current.kind = "if"
      /\ ~ Top.unreachable
      /\ Top.within \in Nat
      /\ Top.end_block > 0
      /\ Top.end_block \in Nat
      /\ EndsLoop(body, stack, Len(stack) - 1, context.break_end_block)
  BY <1>1, ResumingIs
<1>3. k \in Nat /\ k <= BodyCount(Current) /\ k > Conditions(Current) /\ Top.within <= Conditions(Current)
  <2>1. ~ AtEnd
    BY <1>2 DEF Generating
  <2>2. BodyCount(Current) = Conditions(Current) + 1
    BY <1>1, <2>1, CurrentIsKnown, BodyCountOf
  <2> QED BY <1>1, <1>2, <2>2
<1>4. /\ Good(body, child_scopes, d, PendingOfCallers \cup {Top.end_block})
      /\ IsOpen(d)
      /\ Continues(context, d)
      /\ d.break_end_block = context.break_end_block
      /\ d.block_count = context.block_count
  BY <1>1, <1>3, NextBranch
<1> HIDE DEF d
<1>5. /\ top \in Calls
      /\ top.path = Top.path
      /\ top.n = Top.n
      /\ top.within = k
      /\ top.end_block = Top.end_block
  BY <1>3, TopIsKnown DEF Calls
<1>6. k = Top.within + 1
  OBVIOUS
<1> HIDE DEF k, top
<1>7. StatementOf(body, top) = Current
  BY <1>5, TopIsKnown DEF StatementOf, ListOf
<1>8. PendingOf(body, top) = {Top.end_block}
  <2>1. ~ (k <= Conditions(Current)) /\ k # 0
    BY <1>1, <1>2, <1>3, <1>6
  <2> QED BY <1>5, <1>7, <2>1 DEF PendingOf
<1>9. ~ LoopCall(body, top) /\ LoopIsKnown(body, stack, Len(stack), top, EmittedBy(d))
  BY <1>2, <1>7 DEF LoopCall, IsLoop, LoopIsKnown
<1>10. BranchesLead(body, top)
  BY <1>1, <1>2, <1>5, <1>7, <1>8 DEF BranchesLead
<1>11. BoundedCall(Top, d.block_count)
  BY <1>2, <1>4, GeneratingIs
<1>12. Top \in Calls /\ EndsLoop(body, stack, Len(stack) - 1, d.break_end_block) /\ NextScope \in Paths
  BY <1>2, <1>4, TopIsKnown, NextScopeIsPath
<1>13. Good(body, child_scopes, d, PendingOfCallers \cup PendingOf(body, top))
  BY <1>4, <1>8
<1> QED
  BY <1>1, <1>2, <1>3, <1>4, <1>6, <1>9, <1>10, <1>11, <1>12, <1>13, Enters DEF top

(* All the lists of an if lead to its end.                                 *)
LEMMA EndIfStep ==
  ASSUME Inv, EndIf
  PROVE  GeneratorGoesOn
<1> DEFINE d == change_block(FinishWithJump(context, Top.end_block), Top.end_block)
           pending == PendingOfCallers \cup PendingOf(body, Top)
<1>1. /\ Resumes("if")
      /\ Top.within = BodyCount(Current)
      /\ Commit(d)
      /\ Proceed(Top)
  BY DEF EndIf
<1>2. /\ Generating
      /\ Current.kind = "if"
      /\ ~ Top.unreachable
      /\ Top.within \in Nat
      /\ Top.within > 0
      /\ Top.end_block \in Nat
      /\ Top.end_block > 0
      /\ Top.end_block <= context.block_count
      /\ Top.end_block \in PendingOf(body, Top)
      /\ Good(body, child_scopes, context, pending)
      /\ EndsLoop(body, stack, Len(stack) - 1, context.break_end_block)
  BY <1>1, ResumingIs
<1>3. PendingOf(body, Top) = {Top.end_block}
  <2>1. ~ AtEnd
    BY <1>2 DEF Generating
  <2>2. Conditions(Current) \in Nat
        /\ BodyCount(Current) = IF HasElse(Current) THEN Conditions(Current) + 1 ELSE Conditions(Current)
    BY <2>1, CurrentIsKnown, BodyCountOf
  <2>3. BranchesLead(body, Top) /\ StatementOf(body, Top) = Current
    BY <1>2, GeneratingIs, TopIsKnown
  <2>4. CASE HasElse(Current)
    BY <1>1, <1>2, <2>2, <2>3, <2>4 DEF PendingOf
  <2>5. CASE ~ HasElse(Current)
    <3>1. Top.next_block = Top.end_block
      BY <1>1, <1>2, <2>2, <2>3, <2>5 DEF BranchesLead
    <3> QED BY <1>1, <1>2, <2>2, <2>3, <2>5, <3>1 DEF PendingOf
  <2> QED BY <2>4, <2>5
<1>4. Top.end_block \in pending /\ Settles(pending, PendingOfCallers, Top.end_block)
  BY <1>3 DEF Settles
<1> HIDE DEF pending
<1>5. Top.end_block \in Known(context, pending)
  BY <1>4 DEF Known
<1>6. /\ Good(body, child_scopes, d, PendingOfCallers)
      /\ IsOpen(d)
      /\ EmittedBy(context) \subseteq EmittedBy(d)
      /\ d.current_block = Top.end_block
      /\ d.block_count = context.block_count
      /\ d.break_end_block = context.break_end_block
      /\ d.next_child_scope_index = context.next_child_scope_index
  <2>1. BeginsAfterJump(body, child_scopes, context, Top.end_block, PendingOfCallers, d)
    BY <1>2, <1>4, <1>5, FinishAndChange
  <2> QED BY <2>1 DEF BeginsAfterJump
<1> HIDE DEF d
<1>7. Continues(context, d)
  <2>1. context.block_count \in Nat /\ context.break_end_block <= context.block_count
    BY <1>2, ContextContinues
  <2> QED BY <1>2, <1>6, <2>1 DEF Continues
<1>8. ~ (Top.within < BodyCount(Current)) /\ EndsLoop(body, stack, Len(stack) - 1, d.break_end_block)
  BY <1>1, <1>2, <1>6
<1> QED BY <1>1, <1>2, <1>6, <1>7, <1>8, GoesOnReachably

(* A loop has one list.                                                    *)
LEMMA LoopsHaveOneList ==
  ASSUME Inv, Generating, Current.kind \in {"while", "for"}
  PROVE  BodyCount(Current) = 1
<1>1. ~ AtEnd
  BY DEF Generating
<1>2. Current \in Statements(Bodies) /\ IsWellFormed(Current)
  BY <1>1, CurrentIsKnown
<1>3. Len(Current.bodies) = 1 /\ Current.else_statements = <<>>
  BY <1>2 DEF IsWellFormed
<1> QED BY <1>3 DEF BodyCount, Conditions, HasElse

(* A block is open in d that was open in c or begins now.                  *)
OpensBlock(b, scopes, c, pending, d) ==
    /\ Good(b, scopes, d, pending)
    /\ IsOpen(d)
    /\ EmittedBy(c) \subseteq EmittedBy(d)
    /\ d.block_count \in Nat
    /\ c.block_count <= d.block_count
    /\ d.current_block \in Nat
    /\ d.current_block > 0
    /\ d.current_block <= d.block_count
    /\ d.break_end_block = c.break_end_block
    /\ d.next_child_scope_index = c.next_child_scope_index

(* The lemma about enter_new_block, in these terms.                        *)
LEMMA NewBlockBegins ==
  ASSUME NEW b, NEW scopes, NEW c, NEW pending, Good(b, scopes, c, pending), IsOpen(c),
         c.current_block > 0, c.current_block <= c.block_count
  PROVE  OpensBlock(b, scopes, c, pending, enter_new_block(c))
<1> DEFINE d == enter_new_block(c)
<1>1. /\ Good(b, scopes, d, pending)
      /\ IsOpen(d)
      /\ EmittedBy(c) \subseteq EmittedBy(d)
      /\ c.block_count <= d.block_count
      /\ d.current_block \in Nat
      /\ d.current_block > 0
      /\ d.current_block <= d.block_count
      /\ d.break_end_block = c.break_end_block
      /\ d.next_child_scope_index = c.next_child_scope_index
  BY NewBlockStaysGood
<1>2. d.block_count \in Nat
  BY <1>1 DEF Good, Contexts
<1> QED BY <1>1, <1>2 DEF OpensBlock

(* The condition of a loop, which is entered in the open block of c.       *)
LEMMA LoopStep ==
  ASSUME Inv, NEW kind \in {"while", "for"}, Begins(kind),
         NEW c, Good(body, child_scopes, c, PendingOfCallers), IsOpen(c), Continues(context, c),
         c.block_count = context.block_count, c.break_end_block = context.break_end_block,
         NEW targets \in Seq(Nat),
         \A i \in 1 .. Len(targets) :
            targets[i] \in {context.block_count + 1, context.block_count + 2},
         Loop(c, targets)
  PROVE  GeneratorGoesOn
<1> DEFINE end_block == context.block_count + 1
           body_block == context.block_count + 2
           pending == PendingOfCallers \cup {end_block}
           branch == Instruction("branch", Here(1), targets)
           a == [c EXCEPT !.block_count = body_block]
           condition == enter_new_block(a)
           changed == change_block(Emit(condition, branch), body_block)
           d == [changed EXCEPT !.break_end_block = end_block]
           t == [Top EXCEPT !.end_block = end_block,
                            !.condition_block = condition.current_block,
                            !.old_break_end_block = context.break_end_block]
           top == [t EXCEPT !.within = 1]
<1>1. Commit(TakeScope(d)) /\ Enter(t, 1, NextScope, NextScope)
  BY DEF Loop
<1>2. /\ Generating
      /\ Current.kind = kind
      /\ Top.within = 0
      /\ ~ Top.unreachable
      /\ EndsLoop(body, stack, Len(stack) - 1, context.break_end_block)
  BY BeginningIs DEF Begins
<1>3. /\ context.block_count \in Nat
      /\ context.break_end_block \in Nat
      /\ context.break_end_block <= context.block_count
      /\ body_block \in Nat
      /\ end_block \in Nat
      /\ end_block > 0
      /\ body_block > 0
      /\ context.block_count <= end_block
      /\ end_block <= body_block
      /\ context.block_count <= body_block
  BY <1>2, ContextContinues
<1>4. branch \in Instructions /\ branch.kind = "branch" /\ branch.targets = targets
  BY InstructionsAreTyped
<1>5. LeadsInto(branch, pending, body_block)
  BY <1>4 DEF LeadsInto, LeadTo
<1>6. PendingOfCallers \subseteq pending
  OBVIOUS
<1> HIDE DEF branch, end_block, body_block, pending
<1>7. /\ Good(body, child_scopes, a, pending)
      /\ IsOpen(a)
      /\ EmittedBy(a) = EmittedBy(c)
      /\ a.current_block = c.current_block
      /\ a.block_count = body_block
      /\ a.break_end_block = c.break_end_block
      /\ a.next_child_scope_index = c.next_child_scope_index
  BY <1>3, <1>6, AllocateStaysGood
<1>8. a.current_block > 0 /\ a.current_block <= a.block_count
  <2>1. c.current_block \in Nat /\ c.current_block > 0 /\ c.current_block <= context.block_count
    BY DEF Continues, Good, Contexts
  <2> QED BY <1>3, <1>7, <2>1
<1> HIDE DEF a
<1>9. /\ Good(body, child_scopes, condition, pending)
      /\ IsOpen(condition)
      /\ EmittedBy(a) \subseteq EmittedBy(condition)
      /\ condition.block_count \in Nat
      /\ body_block <= condition.block_count
      /\ condition.current_block \in Nat
      /\ condition.current_block > 0
      /\ condition.current_block <= condition.block_count
      /\ condition.break_end_block = a.break_end_block
      /\ condition.next_child_scope_index = a.next_child_scope_index
  <2>1. OpensBlock(body, child_scopes, a, pending, condition)
    BY <1>7, <1>8, NewBlockBegins DEF condition
  <2> HIDE DEF condition
  <2> QED BY <1>7, <2>1 DEF OpensBlock
<1> HIDE DEF condition
<1>10. BeginsBlock(body, child_scopes, condition, body_block, pending, changed)
  BY <1>3, <1>4, <1>5, <1>9, BranchStaysGood
<1> HIDE DEF changed
<1>11. /\ Good(body, child_scopes, changed, pending)
       /\ IsOpen(changed)
       /\ EmittedBy(changed) = EmittedBy(condition) \cup {condition.current_block}
       /\ changed.current_block = body_block
       /\ changed.block_count = condition.block_count
       /\ changed.next_child_scope_index = condition.next_child_scope_index
  BY <1>10 DEF BeginsBlock
<1>12. /\ Good(body, child_scopes, d, pending)
       /\ IsOpen(d)
       /\ EmittedBy(d) = EmittedBy(changed)
       /\ d.current_block = changed.current_block
       /\ d.block_count = changed.block_count
       /\ d.break_end_block = end_block
       /\ d.next_child_scope_index = changed.next_child_scope_index
  BY <1>3, <1>11, BreakTargetStaysGood
<1> HIDE DEF d
<1>13. EmittedBy(c) \subseteq EmittedBy(d) /\ condition.current_block \in EmittedBy(d)
  BY <1>7, <1>9, <1>11, <1>12
<1>14. d.block_count \in Nat /\ body_block <= d.block_count /\ context.block_count <= d.block_count
       /\ end_block <= d.block_count
  BY <1>3, <1>9, <1>11, <1>12
<1>15. Continues(context, d)
  BY <1>3, <1>7, <1>9, <1>11, <1>12, <1>13, <1>14 DEF Continues
<1>16. /\ t \in Calls
       /\ t.path = Top.path
       /\ t.variable_scope = Top.variable_scope
       /\ t.n = Top.n
       /\ ~ t.unreachable
       /\ t.end_block = end_block
       /\ t.next_block = Top.next_block
       /\ t.condition_block = condition.current_block
       /\ t.old_break_end_block = context.break_end_block
  <2>1. Top \in Calls
    BY TopIsKnown
  <2> QED BY <1>2, <1>3, <1>9, <2>1 DEF Calls
<1> HIDE DEF t
<1>17. /\ top \in Calls
       /\ top.path = t.path
       /\ top.n = t.n
       /\ top.within = 1
       /\ top.end_block = end_block
       /\ top.condition_block = condition.current_block
       /\ top.old_break_end_block = context.break_end_block
  BY <1>16 DEF Calls
<1> HIDE DEF top
<1>18. BoundedCall(t, d.block_count)
  <2>1. BoundedCall(Top, d.block_count)
    <3>1. BoundedCall(Top, context.block_count)
      BY <1>2, GeneratingIs
    <3> QED BY <1>3, <1>14, <3>1, TopIsKnown, BoundsGrow
  <2>2. context.break_end_block <= d.block_count /\ condition.current_block <= d.block_count
    BY <1>3, <1>9, <1>11, <1>12, <1>14
  <2> QED BY <1>14, <1>16, <2>1, <2>2 DEF BoundedCall
<1>19. StatementOf(body, top) = Current
  BY <1>16, <1>17, TopIsKnown DEF StatementOf, ListOf
<1>20. BodyCount(Current) = 1
  BY <1>2, LoopsHaveOneList
<1>21. PendingOf(body, top) = {end_block}
  BY <1>2, <1>17, <1>19 DEF PendingOf
<1>22. LoopCall(body, top)
  BY <1>2, <1>17, <1>19 DEF LoopCall, IsLoop
<1>23. LoopIsKnown(body, stack, Len(stack), top, EmittedBy(d))
  BY <1>2, <1>13, <1>17 DEF LoopIsKnown
<1>24. BranchesLead(body, top)
  BY <1>2, <1>3, <1>19, <1>21 DEF BranchesLead
<1>25. Good(body, child_scopes, d, PendingOfCallers \cup PendingOf(body, top))
  BY <1>12, <1>21 DEF pending
<1>26. \/ EndsLoop(body, stack, Len(stack) - 1, d.break_end_block)
       \/ LoopCall(body, top) /\ d.break_end_block = top.end_block
  BY <1>12, <1>17, <1>22
<1>27. 1 \in Nat /\ 1 = Top.within + 1 /\ 1 <= BodyCount(Current) /\ NextScope \in Paths
  BY <1>2, <1>20, NextScopeIsPath
<1> QED
  BY <1>1, <1>2, <1>12, <1>15, <1>16, <1>18, <1>23, <1>24, <1>25, <1>26, <1>27, Enters DEF top

(* A while, whose body comes first in its branch.                          *)
LEMMA WhileStep ==
  ASSUME Inv, While
  PROVE  GeneratorGoesOn
<1> DEFINE count == context.block_count
           targets == <<count + 2, count + 1>>
<1>1. Begins("while") /\ Begun = context
  BY BeginningIs DEF While
<1>2. Loop(context, targets)
  BY <1>1 DEF While
<1>3. /\ Generating
      /\ IsOpen(context)
      /\ Good(body, child_scopes, context, PendingOfCallers)
  BY <1>1, BeginningIs DEF Begins
<1>4. Continues(context, context) /\ count \in Nat
  BY <1>3, ContextContinues
<1>5. /\ targets \in Seq(Nat)
      /\ \A i \in 1 .. Len(targets) : targets[i] \in {context.block_count + 1, context.block_count + 2}
  BY <1>4
<1> HIDE DEF targets
<1> QED BY <1>1, <1>2, <1>3, <1>4, <1>5, LoopStep

(* A for, whose end comes first in its branch.                             *)
LEMMA ForStep ==
  ASSUME Inv, For
  PROVE  GeneratorGoesOn
<1> DEFINE count == context.block_count
           targets == <<count + 1, count + 2>>
           i == Instruction("other", Here(0), <<>>)
           c == Emit(context, i)
<1>1. Begins("for") /\ Begun = context
  BY BeginningIs DEF For
<1>2. Loop(c, targets)
  BY <1>1 DEF For
<1>3. i \in Instructions /\ i.kind = "other" /\ i.targets = <<>>
  BY PlainInstructions
<1> HIDE DEF i
<1>4. LeadTo(<<i>>, PendingOfCallers)
  BY <1>3 DEF LeadTo
<1>5. /\ Good(body, child_scopes, c, PendingOfCallers)
      /\ IsOpen(c)
      /\ Continues(context, c)
      /\ c.block_count = context.block_count
      /\ c.break_end_block = context.break_end_block
  BY <1>1, <1>3, <1>4, EmitsAtBeginning DEF Terminators
<1> HIDE DEF c
<1>6. count \in Nat
  BY <1>1, ContextContinues DEF Begins
<1>7. /\ targets \in Seq(Nat)
      /\ \A k \in 1 .. Len(targets) : targets[k] \in {context.block_count + 1, context.block_count + 2}
  BY <1>6
<1> HIDE DEF targets
<1> QED BY <1>1, <1>2, <1>5, <1>7, LoopStep

(* The break target is the one from before the loop again.                 *)
LEMMA OldTargetIs ==
  ASSUME Inv, NEW kind \in {"while", "for"}, Resumes(kind)
  PROVE  LET c == OldBreakTarget(context)
         IN  /\ Good(body, child_scopes, c, PendingOfCallers \cup {Top.end_block})
             /\ IsOpen(c) <=> IsOpen(context)
             /\ EmittedBy(c) = EmittedBy(context)
             /\ c.block_count = context.block_count
             /\ c.break_end_block = Top.old_break_end_block
             /\ c.next_child_scope_index = context.next_child_scope_index
             /\ EndsLoop(body, stack, Len(stack) - 1, Top.old_break_end_block)
             /\ Top.condition_block \in EmittedBy(context)
             /\ Top.condition_block \in Nat
<1>1. /\ Generating
      /\ Current.kind = kind
      /\ Top.within > 0
      /\ Good(body, child_scopes, context, PendingOfCallers \cup PendingOf(body, Top))
  BY ResumingIs
<1>2. Top \in Calls /\ StatementOf(body, Top) = Current
  BY TopIsKnown
<1>3. PendingOf(body, Top) = {Top.end_block}
  BY <1>1, <1>2, PendingBlocks
<1>4. Top.old_break_end_block \in Nat /\ Top.condition_block \in Nat
  BY <1>2 DEF Calls
<1>5. LoopCall(body, Top) /\ LoopIsKnown(body, stack, Len(stack), Top, EmittedBy(context))
  BY <1>1, <1>2, GeneratingIs DEF LoopCall, IsLoop
<1>6. /\ EndsLoop(body, stack, Len(stack) - 1, Top.old_break_end_block)
      /\ Top.condition_block \in EmittedBy(context)
  BY <1>5 DEF LoopIsKnown
<1> DEFINE pending == PendingOfCallers \cup {Top.end_block}
           c == [context EXCEPT !.break_end_block = Top.old_break_end_block]
<1>7. Good(body, child_scopes, context, pending)
  BY <1>1, <1>3
<1> HIDE DEF pending
<1>8. /\ Good(body, child_scopes, c, pending)
      /\ IsOpen(c) <=> IsOpen(context)
      /\ EmittedBy(c) = EmittedBy(context)
      /\ c.block_count = context.block_count
      /\ c.break_end_block = Top.old_break_end_block
      /\ c.next_child_scope_index = context.next_child_scope_index
  BY <1>4, <1>7, BreakTargetStaysGood
<1> QED BY <1>4, <1>6, <1>8 DEF OldBreakTarget, pending

(* The loop goes back to its condition, and its end begins.                *)
LEMMA EndLoopStep ==
  ASSUME Inv, NEW kind \in {"while", "for"}, Resumes(kind),
         NEW c, Good(body, child_scopes, c, PendingOfCallers \cup {Top.end_block}),
         EmittedBy(c) = EmittedBy(context),
         c.block_count = context.block_count,
         c.break_end_block = Top.old_break_end_block,
         c.next_child_scope_index = context.next_child_scope_index,
         Commit(change_block(FinishWithJump(c, Top.condition_block), Top.end_block)),
         Proceed(Top)
  PROVE  GeneratorGoesOn
<1> DEFINE pending == PendingOfCallers \cup {Top.end_block}
           d == change_block(FinishWithJump(c, Top.condition_block), Top.end_block)
<1>1. /\ Generating
      /\ Current.kind = kind
      /\ Top.within > 0
      /\ Top.within \in Nat
      /\ ~ Top.unreachable
      /\ Top.end_block \in Nat
      /\ Top.end_block > 0
      /\ Top.end_block <= context.block_count
  BY ResumingIs
<1>2. /\ EndsLoop(body, stack, Len(stack) - 1, Top.old_break_end_block)
      /\ Top.condition_block \in EmittedBy(context)
      /\ Top.condition_block \in Nat
  BY OldTargetIs
<1>3. Settles(pending, PendingOfCallers, Top.end_block)
  BY DEF Settles
<1> HIDE DEF pending
<1>4. Good(body, child_scopes, c, pending)
  BY DEF pending
<1>5. Top.condition_block \in Known(c, pending)
  BY <1>2 DEF Known
<1>6. BeginsAfterJump(body, child_scopes, c, Top.end_block, PendingOfCallers, d)
  BY <1>1, <1>2, <1>3, <1>4, <1>5, FinishAndChange
<1> HIDE DEF d
<1>7. /\ Good(body, child_scopes, d, PendingOfCallers)
      /\ IsOpen(d)
      /\ EmittedBy(context) \subseteq EmittedBy(d)
      /\ d.current_block = Top.end_block
      /\ d.block_count = context.block_count
      /\ d.break_end_block = Top.old_break_end_block
      /\ d.next_child_scope_index = context.next_child_scope_index
  BY <1>6 DEF BeginsAfterJump
<1>8. Continues(context, d)
  <2>1. context.block_count \in Nat
    BY <1>1, ContextContinues
  <2>2. BoundedCall(Top, context.block_count)
    BY <1>1, GeneratingIs
  <2> QED BY <1>1, <1>7, <2>1, <2>2 DEF Continues, BoundedCall
<1>9. ~ (Top.within < BodyCount(Current))
  BY <1>1, LoopsHaveOneList
<1>10. EndsLoop(body, stack, Len(stack) - 1, d.break_end_block)
  BY <1>2, <1>7
<1>11. Current.kind # "return" /\ Commit(d)
  BY <1>1 DEF d
<1> QED BY <1>1, <1>7, <1>8, <1>9, <1>10, <1>11, GoesOnReachably

(* The end of a while.                                                     *)
LEMMA EndWhileStep ==
  ASSUME Inv, EndWhile
  PROVE  GeneratorGoesOn
<1> DEFINE c == OldBreakTarget(context)
<1>1. /\ Resumes("while")
      /\ Commit(change_block(FinishWithJump(c, Top.condition_block), Top.end_block))
      /\ Proceed(Top)
  BY DEF EndWhile
<1>2. /\ Good(body, child_scopes, c, PendingOfCallers \cup {Top.end_block})
      /\ EmittedBy(c) = EmittedBy(context)
      /\ c.block_count = context.block_count
      /\ c.break_end_block = Top.old_break_end_block
      /\ c.next_child_scope_index = context.next_child_scope_index
  BY <1>1, OldTargetIs
<1> HIDE DEF c
<1> QED BY <1>1, <1>2, EndLoopStep

(* The end of a for: its increment stays in an open block, unless the body *)
(* ends by leaving the loop.                                               *)
LEMMA EndForStep ==
  ASSUME Inv, EndFor
  PROVE  GeneratorGoesOn
<1> DEFINE c == OldBreakTarget(context)
           i == Instruction("other", Here(Increment), <<>>)
           e == Emit(c, i)
           pending == PendingOfCallers \cup {Top.end_block}
<1>1. /\ Resumes("for")
      /\ Commit(change_block(FinishWithJump(e, Top.condition_block), Top.end_block))
      /\ Proceed(Top)
  BY DEF EndFor
<1>2. /\ Good(body, child_scopes, c, pending)
      /\ IsOpen(c) <=> IsOpen(context)
      /\ EmittedBy(c) = EmittedBy(context)
      /\ c.block_count = context.block_count
      /\ c.break_end_block = Top.old_break_end_block
      /\ c.next_child_scope_index = context.next_child_scope_index
  BY <1>1, OldTargetIs
<1>3. i \in Instructions /\ i.kind = "other" /\ i.targets = <<>>
  <2>1. Increment \in Int
    BY DEF Increment
  <2> QED BY <2>1, PlainInstructions
<1> HIDE DEF c, i, pending
<1>4. LeadTo(<<i>>, Known(c, pending))
  BY <1>3 DEF LeadTo
<1>5. LeftFor(body, child_scopes) \/ IsOpen(c)
  <2>1. /\ Generating
        /\ Current.kind = "for"
        /\ Top.within > 0
    BY <1>1, ResumingIs
  <2>2. GeneratorInv(body, child_scopes, stack, context) /\ Top = TopOf(stack)
    BY <2>1, GeneratingIs, TopIsKnown
  <2>3. \/ IsOpen(context)
        \/ /\ EndsByLeaving(StatementsAt(body, Within(Top.path, Top.n, Top.within)), Leaving)
           /\ IsIn(Within(Top.path, Top.n, Top.within), child_scopes)
    BY <2>1, <2>2 DEF GeneratorInv, OpenOrLeft
  <2>4. Top.path \in Paths /\ Top.n \in Nat /\ Top.within \in Nat
    BY TopIsKnown DEF Calls
  <2>5. StatementsAt(body, Top.path)[Top.n].kind = "for"
    BY <2>1 DEF Current, List
  <2> QED BY <1>2, <2>3, <2>4, <2>5, LeftForIs
<1>6. /\ Good(body, child_scopes, e, pending)
      /\ EmittedBy(e) = EmittedBy(c)
      /\ e.block_count = c.block_count
      /\ e.break_end_block = c.break_end_block
      /\ e.next_child_scope_index = c.next_child_scope_index
  BY <1>2, <1>3, <1>4, <1>5, EmitStaysGood
<1> HIDE DEF e
<1> QED BY <1>1, <1>2, <1>6, EndLoopStep DEF pending

(* Every step of the generator that goes on keeps the invariant.           *)
LEMMA GoingOnKeepsInv ==
  ASSUME Inv, GeneratorGoesOn
  PROVE  Inv'
<1>1. /\ body' \in Bodies
      /\ has_return' \in BOOLEAN
      /\ child_scopes' \in Seq(Paths)
      /\ pc' = "generate"
  BY DEF Inv, GeneratorGoesOn
<1>2. GeneratorInv(body', child_scopes', stack', context')
  BY DEF GeneratorGoesOn
<1>3. /\ context' \in Contexts
      /\ CallsNest(body', stack', child_scopes')
      /\ Bounded(stack', context')
  BY <1>2 DEF GeneratorInv
<1> QED BY <1>1, <1>2, <1>3 DEF Inv

(* Where the function is done with, nothing but pc changes.                *)
LEMMA StoppingKeepsInv ==
  ASSUME Inv, UNCHANGED <<body, has_return, stack, child_scopes, context>>,
         \/ pc' \in {"error", "aborted", "run", "returned"}
         \/ pc' = "verify_failed" /\ Explained
  PROVE  Inv'
<1>1. Explained' <=> Explained
  BY DEF Explained
<1> QED BY <1>1 DEF Inv

(***************************************************************************)
(* process_scope                                                           *)
(***************************************************************************)

HasOneMore(scopes, path, scopes2) ==
    /\ scopes2 \in Seq(Paths)
    /\ Len(scopes) \in Nat
    /\ Len(scopes2) = Len(scopes) + 1
    /\ scopes2[Len(scopes) + 1] = path
    /\ \A k \in 1 .. Len(scopes) : scopes2[k] = scopes[k]
    /\ IsIn(path, scopes2)
    /\ \A p : IsIn(p, scopes) => IsIn(p, scopes2)

(* Nothing is said of the scopes there were before that stops holding.     *)
LEMMA OneMoreScope ==
  ASSUME NEW scopes \in Seq(Paths), NEW path \in Paths,
         NEW scopes2, scopes2 = Append(scopes, path)
  PROVE  HasOneMore(scopes, path, scopes2)
<1>1. /\ scopes2 \in Seq(Paths)
      /\ Len(scopes) \in Nat
      /\ Len(scopes2) = Len(scopes) + 1
      /\ scopes2[Len(scopes) + 1] = path
      /\ \A k \in 1 .. Len(scopes) : scopes2[k] = scopes[k]
  OBVIOUS
<1> QED BY <1>1 DEF IsIn, HasOneMore

(* A list is entered, and gets the next scope.                             *)
LEMMA EnterScopeStep ==
  ASSUME Inv, EnterScope
  PROVE  Inv'
<1> DEFINE k == Top.within + 1
           path == Within(Top.path, Top.n, k)
           top == [Top EXCEPT !.within = k]
           child == Call(path, path, path)
           p == PositionOf(Top, Len(child_scopes))
           q == PositionOf(child, Len(child_scopes'))
<1>1. /\ pc = "process_scope"
      /\ ~ AtEnd
      /\ k <= BodyCount(Current)
      /\ child_scopes' = Append(child_scopes, path)
      /\ stack' = Pushed(stack, top, child)
      /\ UNCHANGED <<body, has_return, pc, context>>
  BY DEF EnterScope, Enter, ScopeCount, Pushed, Callers
<1>2. /\ Top \in Calls
      /\ Top = TopOf(stack)
      /\ Top.n \in Nat \ {0}
      /\ Top.within \in Nat
      /\ Top.path \in Paths
      /\ k \in Nat
      /\ k > 0
      /\ k = Top.within + 1
      /\ stack \in Seq(Calls)
      /\ Len(stack) > 0
  <2>1. /\ Top \in Calls
        /\ Top = TopOf(stack)
        /\ Top.n \in Nat \ {0}
        /\ Top.within \in Nat
        /\ stack \in Seq(Calls)
        /\ Len(stack) \in Nat \ {0}
    BY TopIsKnown
  <2>2. Top.path \in Paths
    BY <2>1 DEF Calls
  <2>3. k \in Nat /\ k > 0 /\ k = Top.within + 1
    BY <2>1
  <2>4. Len(stack) > 0
    BY <2>1
  <2> HIDE DEF k
  <2> QED BY <2>1, <2>2, <2>3, <2>4
<1>3. /\ context = NewContext
      /\ WalkedTo(body, child_scopes, p)
      /\ child_scopes \in Seq(Paths)
      /\ CallsNest(body, stack, child_scopes)
      /\ Bounded(stack, context)
      /\ context \in Contexts
  BY <1>1, <1>2 DEF Inv
<1>4. /\ Top.n <= Len(List)
      /\ List = ListOf(body, Top)
      /\ Current = StatementOf(body, Top)
      /\ BodyCount(Current) \in Nat
  BY <1>1, CurrentIsKnown, TopIsKnown
<1> HIDE DEF k
<1>5. path \in Paths
  BY <1>2, WithinIsPath
<1>6. /\ top \in Calls
      /\ top.path = Top.path
      /\ top.variable_scope = Top.variable_scope
      /\ top.n = Top.n
      /\ top.within = k
      /\ top.end_block = Top.end_block
      /\ top.next_block = Top.next_block
      /\ top.condition_block = Top.condition_block
      /\ top.old_break_end_block = Top.old_break_end_block
  BY <1>2 DEF Calls
<1> HIDE DEF top
<1>7. /\ child_scopes' \in Seq(Paths)
      /\ Len(child_scopes) \in Nat
      /\ Len(child_scopes') = Len(child_scopes) + 1
      /\ child_scopes'[Len(child_scopes) + 1] = path
      /\ \A i \in 1 .. Len(child_scopes) : child_scopes'[i] = child_scopes[i]
      /\ IsIn(path, child_scopes')
      /\ \A r : IsIn(r, child_scopes) => IsIn(r, child_scopes')
  <2>1. HasOneMore(child_scopes, path, child_scopes')
    BY <1>1, <1>3, <1>5, OneMoreScope
  <2> QED BY <2>1 DEF HasOneMore
<1>8. path = Within(TopOf(stack).path, TopOf(stack).n, k)
  BY <1>2
<1> HIDE DEF path
<1>9. /\ child \in Calls
      /\ child.path = path
      /\ child.n = 1
      /\ child.within = 0
      /\ BoundedCall(child, context.block_count)
  BY <1>3, <1>5, FreshCalls DEF Contexts
<1>10. CallsNest(body, stack', child_scopes')
  <2>1. top.path = TopOf(stack).path /\ top.variable_scope = TopOf(stack).variable_scope /\ top.n = TopOf(stack).n
        /\ k <= BodyCount(StatementOf(body, TopOf(stack)))
        /\ TopOf(stack).n <= Len(ListOf(body, TopOf(stack)))
    BY <1>1, <1>2, <1>4, <1>6
  <2> QED
    BY <1>1, <1>2, <1>3, <1>5, <1>6, <1>7, <1>8, <2>1, EnterKeepsNesting
<1> HIDE DEF child
<1>11. BoundedCall(top, context.block_count)
  <2>1. BoundedCall(Top, context.block_count)
    BY <1>2, <1>3 DEF Bounded, TopOf
  <2> QED BY <1>6, <2>1 DEF BoundedCall
<1>12. Bounded(stack', context')
  <2>1. /\ context.block_count <= context.block_count
        /\ context.current_block > 0
        /\ context.current_block <= context.block_count
        /\ context.break_end_block <= context.block_count
    BY <1>3 DEF Bounded, Contexts
  <2> QED BY <1>1, <1>2, <1>3, <1>6, <1>9, <1>11, <2>1, EnterKeepsBounds
<1>13. TopOf(stack') = child
  <2>1. PushesOnTop(stack', stack, top, child)
    BY <1>1, <1>2, <1>6, <1>9, ReplaceTopAndPush
  <2> QED BY <2>1 DEF PushesOnTop, TopOf
<1>14. /\ p.path = Top.path
       /\ p.n = Top.n
       /\ p.within = Top.within
       /\ p.count = Len(child_scopes)
  BY <1>2, <1>7, PositionsOfCalls
<1>15. q \in Positions /\ q = [path |-> path, n |-> 1, within |-> 0, count |-> Len(child_scopes) + 1]
  <2>1. Len(child_scopes') \in Nat
    BY <1>7
  <2>2. q \in Positions
    BY <1>9, <2>1, PositionsOfCalls
  <2> QED BY <1>7, <1>9, <2>2 DEF PositionOf
<1>16. EntersList(body, child_scopes', p, q)
  <2>1. IsInList(body, p)
    BY <1>4, <1>14 DEF IsInList, ListOf
  <2>2. HasNextList(body, p)
    BY <1>1, <1>2, <1>4, <1>14 DEF HasNextList, ListOf, StatementOf
  <2>3. path = Within(p.path, p.n, p.within + 1)
    BY <1>2, <1>8, <1>14
  <2>4. q.count = Len(child_scopes) + 1 /\ q.path = path
    BY <1>15
  <2>5. q.count <= Len(child_scopes') /\ child_scopes'[q.count] = q.path
    BY <1>7, <2>4
  <2>6. q = [path |-> Within(p.path, p.n, p.within + 1), n |-> 1, within |-> 0, count |-> p.count + 1]
    BY <1>14, <1>15, <2>3
  <2> QED BY <2>1, <2>2, <2>5, <2>6 DEF EntersList
<1> HIDE DEF p, q
<1>17. WalkedTo(body, child_scopes', q)
  <2>1. Follows(body, child_scopes', p, q)
    BY <1>16 DEF Follows
  <2>2. Len(child_scopes') \in Nat /\ Len(child_scopes) <= Len(child_scopes')
    BY <1>7
  <2> QED BY <1>3, <1>7, <1>15, <2>1, <2>2, WalkGoesOn
<1>18. WalkedTo(body', child_scopes', PositionOf(TopOf(stack'), Len(child_scopes')))
  BY <1>1, <1>13, <1>17 DEF q
<1> QED BY <1>1, <1>3, <1>7, <1>10, <1>12, <1>18 DEF Inv

(* The next statement.                                                     *)
LEMMA LeaveStatementStep ==
  ASSUME Inv, LeaveStatement
  PROVE  Inv'
<1> DEFINE u == Top.unreachable
           top == [[Top EXCEPT !.unreachable = u] EXCEPT !.n = Top.n + 1, !.within = 0]
           p == PositionOf(Top, Len(child_scopes))
           q == PositionOf(top, Len(child_scopes))
<1>1. /\ pc = "process_scope"
      /\ ~ AtEnd
      /\ Top.within >= BodyCount(Current)
      /\ Proceed(Top)
      /\ UNCHANGED <<body, has_return, pc, child_scopes, context>>
  BY DEF LeaveStatement, ScopeCount
<1>2. /\ Top \in Calls
      /\ Top = TopOf(stack)
      /\ Top.n \in Nat \ {0}
      /\ Top.within \in Nat
      /\ u \in BOOLEAN
      /\ stack \in Seq(Calls)
      /\ Len(stack) > 0
  BY TopIsKnown DEF Calls
<1>3. /\ context = NewContext
      /\ WalkedTo(body, child_scopes, p)
      /\ child_scopes \in Seq(Paths)
      /\ Len(child_scopes) \in Nat
      /\ CallsNest(body, stack, child_scopes)
      /\ Bounded(stack, context)
      /\ context \in Contexts
  BY <1>1, <1>2 DEF Inv
<1>4. /\ Top.n <= Len(List)
      /\ List = ListOf(body, Top)
      /\ Current = StatementOf(body, Top)
      /\ BodyCount(Current) \in Nat
  BY <1>1, CurrentIsKnown, TopIsKnown
<1>5. stack' = Replaced(stack, top)
  <2>1. [Top EXCEPT !.unreachable = u] = Top
    BY <1>2 DEF Calls
  <2> QED BY <1>1, <2>1 DEF Proceed, Callers, Replaced
<1> HIDE DEF u
<1>6. /\ top \in Calls
      /\ top.path = Top.path
      /\ top.variable_scope = Top.variable_scope
      /\ top.n = Top.n + 1
      /\ top.within = 0
      /\ BoundedCall(top, context.block_count)
  BY <1>2, NextCall
<1> HIDE DEF top
<1>7. CallsNest(body, stack', child_scopes)
  BY <1>2, <1>3, <1>4, <1>5, <1>6, ProceedKeepsNesting
<1>8. Bounded(stack', context)
  <2>1. /\ context.block_count <= context.block_count
        /\ context.current_block > 0
        /\ context.current_block <= context.block_count
        /\ context.break_end_block <= context.block_count
    BY <1>3 DEF Bounded, Contexts
  <2> QED BY <1>2, <1>3, <1>5, <1>6, <2>1, ProceedKeepsBounds
<1>9. TopOf(stack') = top
  <2>1. ReplacesTop(stack', stack, top)
    BY <1>2, <1>5, <1>6, ReplaceTop
  <2> QED BY <2>1 DEF ReplacesTop, TopOf
<1>10. /\ p.path = Top.path
       /\ p.n = Top.n
       /\ p.within = Top.within
       /\ p.count = Len(child_scopes)
  BY <1>2, <1>3, PositionsOfCalls
<1>11. q \in Positions /\ q = [path |-> Top.path, n |-> Top.n + 1, within |-> 0, count |-> Len(child_scopes)]
  <2>1. q \in Positions
    BY <1>3, <1>6, PositionsOfCalls
  <2> QED BY <1>6, <2>1 DEF PositionOf
<1>12. Follows(body, child_scopes, p, q)
  <2>1. IsInList(body, p)
    BY <1>4, <1>10 DEF IsInList, ListOf
  <2>2. ~ HasNextList(body, p)
    BY <1>1, <1>2, <1>4, <1>10 DEF HasNextList, ListOf, StatementOf
  <2>3. q = [path |-> p.path, n |-> p.n + 1, within |-> 0, count |-> p.count]
    BY <1>10, <1>11
  <2> QED BY <2>1, <2>2, <2>3 DEF Follows, Proceeds
<1> HIDE DEF p, q
<1>13. WalkedTo(body, child_scopes, q)
  <2>1. Len(child_scopes) <= Len(child_scopes)
    BY <1>3
  <2> QED BY <1>3, <1>11, <1>12, <2>1, WalkGoesOn
<1> QED BY <1>1, <1>3, <1>7, <1>8, <1>9, <1>13 DEF Inv, q

(* The end of a nested list, in either walk.                               *)
LEMMA LeaveListStep ==
  ASSUME Inv, LeaveList
  PROVE  Inv'
<1>1. /\ pc \in {"process_scope", "generate"}
      /\ Top.within = 0
      /\ Top.n > Len(List)
      /\ Len(stack) > 1
      /\ stack' = CallersOf(stack)
      /\ UNCHANGED <<body, has_return, pc, child_scopes, context>>
  BY TopIsKnown DEF LeaveList, AtEnd
<1>2. /\ Top = TopOf(stack)
      /\ List = ListOf(body, Top)
      /\ Top \in Calls
      /\ ~ (Top.n <= Len(List))
      /\ stack \in Seq(Calls)
  BY <1>1, TopIsKnown
<1>3. /\ body \in Bodies
      /\ child_scopes \in Seq(Paths)
      /\ Len(child_scopes) \in Nat
      /\ CallsNest(body, stack, child_scopes)
      /\ Bounded(stack, context)
      /\ context \in Contexts
  BY DEF Inv
<1>4. CallsNest(body, stack', child_scopes) /\ Bounded(stack', context)
  BY <1>1, <1>3, LeaveKeepsNesting, LeaveKeepsBounds
<1>5. ASSUME pc = "process_scope"
      PROVE  WalkedTo(body, child_scopes, PositionOf(TopOf(stack'), Len(child_scopes)))
  <2> DEFINE p == PositionOf(Top, Len(child_scopes))
             q == PositionOf(TopOf(stack'), Len(child_scopes))
  <2>1. WalkedTo(body, child_scopes, p)
    BY <1>2, <1>5 DEF Inv
  <2>2. p.path = Top.path /\ p.n = Top.n /\ p.count = Len(child_scopes)
    BY <1>2, <1>3, PositionsOfCalls
  <2>3. TopOf(stack') \in Calls
    BY <1>4, TopIsCall
  <2>4. /\ q \in Positions
        /\ q.path = TopOf(stack').path
        /\ q.n = TopOf(stack').n
        /\ q.within = TopOf(stack').within
        /\ q.count = Len(child_scopes)
    BY <1>3, <2>3, PositionsOfCalls
  <2>5. TopOf(stack') = stack[Len(stack) - 1]
    BY <1>1, <1>3, LeaveKeepsNesting
  <2> HIDE DEF p, q
  <2>6. p.path = Within(q.path, q.n, q.within)
    <3>1. PICK m \in Nat : Len(stack) = m /\ m > 1
      BY <1>1, TopIsKnown
    <3>2. stack[m].path = Within(stack[m - 1].path, stack[m - 1].n, stack[m - 1].within)
      BY <1>3, <3>1 DEF CallsNest
    <3> QED BY <1>2, <2>2, <2>4, <2>5, <3>1, <3>2 DEF TopOf
  <2>7. ~ IsInList(body, p)
    BY <1>2, <2>2 DEF IsInList, ListOf
  <2>8. Follows(body, child_scopes, p, q)
    BY <2>2, <2>4, <2>6, <2>7 DEF Follows, LeavesTheList
  <2>9. WalkedTo(body, child_scopes, q)
    <3>1. Len(child_scopes) <= Len(child_scopes)
      BY <1>3
    <3> QED BY <1>3, <2>1, <2>4, <2>8, <3>1, WalkGoesOn
  <2> QED BY <2>9 DEF q
<1>6. ASSUME pc = "generate"
      PROVE  GeneratorInv(body, child_scopes, stack', context)
  <2>1. GeneratorInv(body, child_scopes, stack, context)
    BY <1>6 DEF Inv
  <2> QED BY <1>1, <1>2, <1>3, <2>1, LeavingKeepsInv
<1> QED BY <1>1, <1>3, <1>4, <1>5, <1>6 DEF Inv

(* The first walk is over: the second one has its way to go.               *)
LEMMA ScopesProcessedStep ==
  ASSUME Inv, ScopesProcessed
  PROVE  Inv'
<1> DEFINE p == PositionOf(Top, Len(child_scopes))
<1>1. /\ pc = "process_scope"
      /\ Top.n > Len(List)
      /\ Len(stack) = 1
      /\ stack' = <<FirstCall>>
      /\ pc' = "generate"
      /\ UNCHANGED <<body, has_return, child_scopes, context>>
  BY DEF ScopesProcessed, AtEnd
<1>2. /\ Top = TopOf(stack)
      /\ List = ListOf(body, Top)
      /\ Top \in Calls
      /\ ~ (Top.n <= Len(List))
      /\ Len(child_scopes) \in Nat
      /\ context = NewContext
      /\ WalkedTo(body, child_scopes, p)
      /\ body \in Bodies
  BY <1>1, TopIsKnown DEF Inv
<1>3. p.path = Top.path /\ p.n = Top.n /\ p.count = Len(child_scopes)
  BY <1>2, PositionsOfCalls
<1>4. Top.path = <<>>
  BY <1>1 DEF Inv, CallsNest, Top
<1> HIDE DEF p
<1>5. IsLastPosition(body, p)
  BY <1>2, <1>3, <1>4 DEF IsLastPosition, IsInList, ListOf
<1>6. WalksTo(body, child_scopes, FirstPosition)
  BY <1>2, <1>3, <1>5, WalkIsRepeated
<1>7. GeneratorInv(body, child_scopes, stack', context')
  BY <1>1, <1>2, <1>6, GeneratorBegins
<1> QED
  <2>1. GeneratorGoesOn
    BY <1>1, <1>7 DEF GeneratorGoesOn
  <2> QED BY <2>1, GoingOnKeepsInv

(* The job starts over with the same scopes.                               *)
LEMMA StartOverStep ==
  ASSUME Inv, StartOver
  PROVE  GeneratorGoesOn
<1>1. /\ Generating
      /\ stack' = <<FirstCall>>
      /\ context' = NewContext
      /\ UNCHANGED <<body, has_return, pc, child_scopes>>
  BY DEF StartOver, Evaluates
<1>2. WalksTo(body, child_scopes, FirstPosition)
  <2> DEFINE p == PositionOf(TopOf(stack), context.next_child_scope_index)
  <2>1. WalksTo(body, child_scopes, p)
    BY <1>1, GeneratingIs DEF GeneratorInv
  <2> HIDE DEF p
  <2> QED BY <2>1, WalkStartsOver
<1>3. GeneratorInv(body, child_scopes, stack', context')
  BY <1>1, <1>2, GeneratorBegins DEF Inv
<1> QED BY <1>1, <1>3 DEF GeneratorGoesOn, Generating

(* The generator is at the end of the body.                                *)
LEMMA EndIs ==
  ASSUME Inv, EndsGeneration
  PROVE  /\ ScopesTaken
         /\ GeneratorInv(body, child_scopes, stack, context)
         /\ context \in Contexts
         /\ Good(body, child_scopes, context, {})
         /\ body \in Bodies
         /\ has_return_at_end(body) => ~ IsOpen(context)
         /\ IsOpen(context) \/ EndsByLeaving(body, {"return"})
<1>1. pc = "generate" /\ Top.within = 0 /\ Top.n > Len(List) /\ Len(stack) = 1
  BY DEF EndsGeneration, AtEnd
<1>2. /\ Top \in Calls
      /\ Top = TopOf(stack)
      /\ List = ListOf(body, Top)
      /\ Top.n \in Nat \ {0}
      /\ Len(List) \in Nat
      /\ Top.n <= Len(List) + 1
      /\ stack \in Seq(Calls)
  BY TopIsKnown
<1>3. /\ body \in Bodies
      /\ GeneratorInv(body, child_scopes, stack, context)
      /\ Top.path = <<>>
  BY <1>1 DEF Inv, CallsNest, Top
<1>4. List = body /\ Top.n = Len(body) + 1 /\ Len(body) \in Nat /\ Top.n - 1 = Len(body)
  <2>1. List = body
    BY <1>3, StatementsAtRoot DEF List
  <2> QED BY <1>1, <1>2, <2>1
<1>5. ScopesTaken
  <2> DEFINE count == context.next_child_scope_index
             p == PositionOf(Top, count)
  <2>1. count \in Nat /\ WalksTo(body, child_scopes, p)
    BY <1>2, <1>3 DEF GeneratorInv, Contexts
  <2>2. p.path = Top.path /\ p.n = Top.n /\ p.count = count
    BY <1>2, <2>1, PositionsOfCalls
  <2> HIDE DEF p
  <2>3. IsLastPosition(body, p)
    BY <1>1, <1>2, <1>3, <2>2 DEF IsLastPosition, IsInList, ListOf
  <2>4. p.count = Len(child_scopes)
    BY <2>1, <2>3, WalkEnds
  <2> QED BY <2>2, <2>4 DEF ScopesTaken
<1>6. Good(body, child_scopes, context, {})
  <2>1. Good(body, child_scopes, context, Pending(body, stack))
    BY <1>3 DEF GeneratorInv
  <2>2. PendingOf(body, stack[1]) = {}
    BY <1>1, <1>2, PendingBlocks DEF TopOf
  <2>3. Pending(body, stack) = {}
    BY <1>1, <2>2 DEF Pending, PendingOfFirst
  <2> QED BY <2>1, <2>3
<1>7. LeftRightly(body, Top, TRUE) /\ (IsOpen(context) <=> ~ Top.unreachable)
  BY <1>1, <1>2, <1>3 DEF GeneratorInv, StackFacts, OpenOrLeft
<1>8. ASSUME has_return_at_end(body)
      PROVE  ~ IsOpen(context)
  <2>1. body # <<>> /\ body[Len(body)].kind = "return"
    BY <1>8 DEF has_return_at_end
  <2>2. body \in Seq(Statements(Bodies))
    BY <1>3, StatementsAreTyped
  <2>3. Len(body) > 0
    BY <2>1, <2>2
  <2>4. Top.n > 1 /\ ListOf(body, Top)[Top.n - 1].kind = "return"
    BY <1>2, <1>4, <2>1, <2>3
  <2> QED BY <1>1, <1>7, <2>4 DEF LeftRightly
<1>9. ASSUME ~ IsOpen(context)
      PROVE  EndsByLeaving(body, {"return"})
  <2>1. HasLeft(body, Top.n, {"return"})
    BY <1>2, <1>4, <1>7, <1>9 DEF LeftRightly
  <2>2. PICK m \in 1 .. Len(body) :
           /\ body[m].kind \in {"return"}
           /\ \A d \in m + 1 .. Len(body) : body[d].kind = "declaration"
    BY <1>4, <2>1 DEF HasLeft
  <2>3. m \in DOMAIN body
    BY <1>3, <2>2, StatementsAreTyped
  <2> QED BY <2>2, <2>3 DEF EndsByLeaving
<1> QED BY <1>3, <1>5, <1>6, <1>8, <1>9 DEF GeneratorInv

(* The last block is handed over with the others.                          *)
LEMMA LastBlockIsHandedOver ==
  ASSUME NEW c \in Contexts, TargetsKnown(c, {}), ~ IsOpen(c), ~ c.assertion_failed,
         NEW d, d = [c EXCEPT !.blocks = Finished(c)]
  PROVE  /\ d \in Contexts
         /\ d.current_block = c.current_block
         /\ d.block_count = c.block_count
         /\ d.break_end_block = c.break_end_block
         /\ \A n \in 1 .. Len(d.blocks) : LeadTo(d.blocks[n].instructions, EmittedBy(d))
         /\ Sound(c) => \A n \in 1 .. Len(d.blocks) : IsBasicBlock(d.blocks[n].instructions)
<1> DEFINE all == Finished(c)
           last == [block |-> c.current_block, instructions |-> c.instructions]
<1>1. PICK m \in Nat : m = Len(c.blocks)
  BY DEF Contexts
<1>2. /\ all \in Seq(Entries)
      /\ Len(all) = m + 1
      /\ \A n \in 1 .. m : all[n] = c.blocks[n]
      /\ all[m + 1] = last
  BY <1>1, FinishedBlocks
<1>3. last.block = c.current_block /\ last.instructions = c.instructions
  OBVIOUS
<1> HIDE DEF all, last
<1>4. /\ d \in Contexts
      /\ d.blocks = all
      /\ d.current_block = c.current_block
      /\ d.block_count = c.block_count
      /\ d.break_end_block = c.break_end_block
  <2>1. d = [c EXCEPT !.blocks = all]
    BY DEF all
  <2> QED BY <1>2, <2>1 DEF Contexts
<1>5. Known(c, {}) \subseteq EmittedBy(d)
  <2>1. ASSUME NEW n \in 1 .. m
        PROVE  c.blocks[n].block \in EmittedBy(d)
    <3>1. n \in 1 .. m + 1 /\ c.blocks[n] = all[n]
      BY <1>2
    <3> QED BY <1>2, <1>4, <3>1 DEF EmittedBy
  <2>2. c.current_block \in EmittedBy(d)
    BY <1>2, <1>3, <1>4 DEF EmittedBy
  <2> QED BY <1>1, <2>1, <2>2 DEF Known, EmittedBy
<1>6. ASSUME NEW n \in 1 .. m + 1
      PROVE  /\ LeadTo(all[n].instructions, EmittedBy(d))
             /\ Sound(c) => IsBasicBlock(all[n].instructions)
  <2>1. CASE n = m + 1
    <3>1. LeadTo(all[n].instructions, Known(c, {}))
      BY <1>2, <1>3, <2>1 DEF TargetsKnown
    <3>2. LeadTo(all[n].instructions, EmittedBy(d))
      BY <1>5, <3>1 DEF LeadTo
    <3>3. Sound(c) => IsBasicBlock(all[n].instructions)
      BY <1>2, <1>3, <2>1, FinishedIsBasic DEF Sound
    <3> QED BY <3>2, <3>3
  <2>2. CASE n # m + 1
    <3>1. n \in 1 .. m /\ all[n] = c.blocks[n]
      BY <1>2, <2>2
    <3>2. LeadTo(all[n].instructions, Known(c, {}))
      BY <1>1, <3>1 DEF TargetsKnown
    <3>3. LeadTo(all[n].instructions, EmittedBy(d))
      BY <1>5, <3>2 DEF LeadTo
    <3>4. Sound(c) => IsBasicBlock(all[n].instructions)
      BY <1>1, <3>1 DEF Sound
    <3> QED BY <3>3, <3>4
  <2> QED BY <2>1, <2>2
<1> QED BY <1>2, <1>4, <1>6

(* What is left at the end: the return that was missing.                   *)
LEMMA EndFunctionStep ==
  ASSUME Inv, EndFunction
  PROVE  Inv'
<1> DEFINE i == Instruction("return", End, <<>>)
           returned == IF has_return_at_end(body) THEN context ELSE Emit(context, i)
<1>1. /\ EndsGeneration
      /\ UNCHANGED <<body, has_return, stack, child_scopes>>
      /\ context' = [Assert(ScopesTaken, returned) EXCEPT
                       !.blocks = Finished(Assert(ScopesTaken, returned))]
      /\ pc' = IF Assert(ScopesTaken, returned).assertion_failed
                 THEN "assert_failed" ELSE "backend"
  BY DEF EndFunction
<1>2. /\ ScopesTaken
      /\ context \in Contexts
      /\ Good(body, child_scopes, context, {})
      /\ has_return_at_end(body) => ~ IsOpen(context)
      /\ IsOpen(context) \/ EndsByLeaving(body, {"return"})
  BY <1>1, EndIs
<1>3. TargetsKnown(context, {}) /\ ~ context.assertion_failed
      /\ (LeftFor(body, child_scopes) \/ Sound(context))
  BY <1>2 DEF Good
<1>4. /\ i \in Instructions
      /\ i.kind = "return"
      /\ i.targets = <<>>
  <2> DEFINE none == <<>>
  <2>1. none \in Seq(Nat) /\ none \in Paths
    BY DEF Paths
  <2>2. End \in Points
    BY <2>1 DEF End, Point, Points
  <2>3. i = [kind |-> "return", point |-> End, targets |-> none]
    BY DEF Instruction
  <2> HIDE DEF none
  <2>4. i \in Instructions /\ i.kind = "return" /\ i.targets = none
    BY <2>1, <2>2, <2>3 DEF Instructions
  <2> QED BY <2>4 DEF none
<1> HIDE DEF i
<1>5. LeadTo(<<i>>, Known(context, {}))
  BY <1>4 DEF LeadTo
<1>6. /\ returned \in Contexts
      /\ TargetsKnown(returned, {})
      /\ ~ IsOpen(returned)
      /\ ~ returned.assertion_failed
      /\ returned.current_block = context.current_block
      /\ returned.block_count = context.block_count
      /\ returned.break_end_block = context.break_end_block
      /\ Explained \/ Sound(returned)
  <2>1. CASE has_return_at_end(body)
    <3>1. returned = context
      BY <2>1
    <3> HIDE DEF returned
    <3> QED BY <1>2, <1>3, <2>1, <3>1 DEF Explained
  <2>2. CASE ~ has_return_at_end(body)
    <3> DEFINE e == Emit(context, i)
    <3>1. returned = e
      BY <2>2
    <3>2. /\ e \in Contexts
          /\ TargetsKnown(e, {})
          /\ IsOpen(e) <=> i.kind \notin Terminators
          /\ e.current_block = context.current_block
          /\ e.block_count = context.block_count
          /\ e.break_end_block = context.break_end_block
          /\ e.assertion_failed = context.assertion_failed
      BY <1>2, <1>3, <1>4, <1>5, EmitKeepsTargets
    <3>3. ASSUME IsOpen(context)
          PROVE  Good(body, child_scopes, e, {})
      BY <1>2, <1>4, <1>5, <3>3, EmitStaysGood
    <3>4. Explained \/ Sound(e)
      BY <1>2, <2>2, <3>3 DEF Explained, Good
    <3>5. ~ IsOpen(e)
      BY <1>4, <3>2 DEF Terminators
    <3> HIDE DEF returned, e
    <3> QED BY <1>3, <3>1, <3>2, <3>4, <3>5
  <2> QED BY <2>1, <2>2
<1> HIDE DEF returned
<1>7. Assert(ScopesTaken, returned) = returned
  <2>1. ScopesTaken \in BOOLEAN
    BY DEF ScopesTaken
  <2> QED BY <1>2, <1>6, <2>1, AssertThatHolds
<1>8. pc' = "backend" /\ context' = [returned EXCEPT !.blocks = Finished(returned)]
  BY <1>1, <1>6, <1>7
<1>9. /\ context' \in Contexts
      /\ context'.current_block = context.current_block
      /\ context'.block_count = context.block_count
      /\ context'.break_end_block = context.break_end_block
      /\ \A n \in 1 .. Len(context'.blocks) :
            LeadTo(context'.blocks[n].instructions, EmittedBy(context'))
      /\ Sound(returned) =>
           \A n \in 1 .. Len(context'.blocks) : IsBasicBlock(context'.blocks[n].instructions)
  BY <1>6, <1>8, LastBlockIsHandedOver
<1>10. Explained' <=> Explained
  BY <1>1 DEF Explained
<1>11. HandedOver'
  BY <1>6, <1>9, <1>10 DEF HandedOver
<1>12. Bounded(stack', context')
  BY <1>1, <1>9 DEF Inv, Bounded
<1>13. CallsNest(body', stack', child_scopes')
  BY <1>1 DEF Inv
<1> QED BY <1>1, <1>8, <1>9, <1>11, <1>12, <1>13 DEF Inv

(***************************************************************************)
(* The backend                                                             *)
(***************************************************************************)

(* Every block that is led to was emitted; a block that is no basic block  *)
(* is one of those explained.                                              *)
LEMMA BackendStep ==
  ASSUME Inv, Backend
  PROVE  Inv'
<1>1. /\ pc = "backend"
      /\ UNCHANGED <<body, has_return, stack, child_scopes, context>>
      /\ pc' = IF ~ Targets \subseteq Emitted THEN "assert_failed"
               ELSE IF \A block \in Emitted : IsBasicBlock(Code(block)) THEN "run"
               ELSE "verify_failed"
  BY DEF Backend
<1>2. HandedOver /\ context \in Contexts
  BY <1>1 DEF Inv
<1>3. /\ context.blocks \in Seq(Entries)
      /\ DOMAIN context.blocks = 1 .. Len(context.blocks)
      /\ \A n \in DOMAIN context.blocks :
            /\ context.blocks[n].instructions \in Seq(Instructions)
            /\ DOMAIN context.blocks[n].instructions = 1 .. Len(context.blocks[n].instructions)
            /\ \A k \in DOMAIN context.blocks[n].instructions :
                  DOMAIN context.blocks[n].instructions[k].targets
                    = 1 .. Len(context.blocks[n].instructions[k].targets)
  <2>1. context.blocks \in Seq(Entries)
    BY <1>2 DEF Contexts
  <2>2. DOMAIN context.blocks = 1 .. Len(context.blocks)
    BY <2>1
  <2>3. ASSUME NEW n \in DOMAIN context.blocks
        PROVE  context.blocks[n].instructions \in Seq(Instructions)
    <3>1. context.blocks[n] \in Entries
      BY <2>1, <2>2
    <3> QED BY <3>1 DEF Entries
  <2>4. ASSUME NEW n \in DOMAIN context.blocks, NEW k \in DOMAIN context.blocks[n].instructions
        PROVE  DOMAIN context.blocks[n].instructions[k].targets
                 = 1 .. Len(context.blocks[n].instructions[k].targets)
    <3> DEFINE s == context.blocks[n].instructions
    <3>1. s \in Seq(Instructions) /\ k \in DOMAIN s
      BY <2>3
    <3> HIDE DEF s
    <3>2. s[k] \in Instructions
      BY <3>1
    <3>3. s[k].targets \in Seq(Nat)
      BY <3>2 DEF Instructions
    <3> QED BY <3>3 DEF s
  <2> QED BY <2>1, <2>2, <2>3, <2>4
<1>4. Emitted = EmittedBy(context)
  BY <1>3 DEF Emitted, EmittedBy
<1>5. Targets \subseteq Emitted
  <2>1. ASSUME NEW n \in DOMAIN context.blocks, NEW k \in DOMAIN context.blocks[n].instructions,
               NEW j \in DOMAIN context.blocks[n].instructions[k].targets
        PROVE  context.blocks[n].instructions[k].targets[j] \in Emitted
    <3>1. LeadTo(context.blocks[n].instructions, EmittedBy(context))
      BY <1>2, <1>3 DEF HandedOver
    <3> QED BY <1>3, <1>4, <3>1 DEF LeadTo
  <2>2. ASSUME NEW x \in Targets
        PROVE  x \in Emitted
    <3>1. PICK i \in UNION {{entry.instructions[k] : k \in DOMAIN entry.instructions} :
                              entry \in {context.blocks[n] : n \in DOMAIN context.blocks}} :
             x \in {i.targets[k] : k \in DOMAIN i.targets}
      BY DEF Targets
    <3>2. PICK n \in DOMAIN context.blocks :
             i \in {context.blocks[n].instructions[k] : k \in DOMAIN context.blocks[n].instructions}
      BY <3>1
    <3>3. PICK k \in DOMAIN context.blocks[n].instructions : i = context.blocks[n].instructions[k]
      BY <3>2
    <3>4. PICK j \in DOMAIN i.targets : x = i.targets[j]
      BY <3>1
    <3> QED BY <2>1, <3>3, <3>4
  <2> QED BY <2>2
<1>6. ASSUME ~ Explained
      PROVE  \A block \in Emitted : IsBasicBlock(Code(block))
  <2>1. ASSUME NEW block \in Emitted
        PROVE  IsBasicBlock(Code(block))
    <3> DEFINE n == CHOOSE n \in DOMAIN context.blocks : context.blocks[n].block = block
    <3>1. \E m \in DOMAIN context.blocks : context.blocks[m].block = block
      BY DEF Emitted
    <3>2. n \in DOMAIN context.blocks
      BY <3>1
    <3>3. Code(block) = context.blocks[n].instructions
      BY DEF Code
    <3> HIDE DEF n
    <3> QED BY <1>2, <1>3, <1>6, <3>2, <3>3 DEF HandedOver
  <2> QED BY <2>1
<1>7. \/ pc' = "run"
      \/ pc' = "verify_failed" /\ Explained
  BY <1>1, <1>5, <1>6
<1> QED BY <1>1, <1>7, StoppingKeepsInv

(* Running the blocks does not change them.                                *)
LEMMA RunStep ==
  ASSUME Inv, Run
  PROVE  Inv'
<1>1. /\ pc = "run"
      /\ pc' = "run" \/ pc' = "returned"
      /\ UNCHANGED <<body, has_return, stack, child_scopes, context>>
  BY DEF Run
<1> QED BY <1>1, StoppingKeepsInv

(***************************************************************************)
(* The whole                                                               *)
(***************************************************************************)

(* The invariant holds at first.                                           *)
LEMMA InitKeepsInv ==
  ASSUME Init
  PROVE  Inv
<1> DEFINE call == FirstCall
           stk == <<call>>
           none == <<>>
<1>1. /\ body \in Bodies
      /\ has_return \in BOOLEAN
      /\ pc = "process_scope"
      /\ stack = stk
      /\ child_scopes = none
      /\ context = NewContext
  BY DEF Init
<1>2. none \in Seq(Paths) /\ Len(none) = 0
  OBVIOUS
<1>3. TopOf(stk) = call
  BY DEF TopOf
<1>4. CallsNest(body, stk, child_scopes) /\ Bounded(stk, NewContext)
  BY <1>1, FirstCallNests, FirstBounds
<1> HIDE DEF stk, none
<1>5. NewContext \in Contexts
  BY NewIsGood
<1>6. WalkedTo(body, child_scopes, FirstPosition)
  BY WalkBegins
<1>7. PositionOf(TopOf(stack), Len(child_scopes)) = FirstPosition
  BY <1>1, <1>2, <1>3 DEF FirstPosition
<1> QED BY <1>1, <1>2, <1>4, <1>5, <1>6, <1>7 DEF Inv

(* It is kept by the generator.                                            *)
LEMMA GenerateStatementStep ==
  ASSUME Inv, GenerateStatement
  PROVE  Inv'
<1>1. CASE \/ Declaration \/ StartOver \/ Effect \/ Nothing \/ Return \/ Break
           \/ If \/ ElseIf \/ Else \/ EndIf \/ While \/ EndWhile \/ For \/ EndFor
  <2>1. GeneratorGoesOn
    BY <1>1, DeclarationStep, StartOverStep, EffectStep, NothingStep, ReturnStep, BreakStep,
       IfStep, ElseIfStep, ElseStep, EndIfStep, WhileStep, EndWhileStep, ForStep, EndForStep
  <2> QED BY <2>1, GoingOnKeepsInv
<1>2. CASE UnreachableCode \/ TypeError \/ BreakOutsideLoop
  <2>1. Reject
    BY <1>2 DEF UnreachableCode, TypeError, BreakOutsideLoop
  <2> QED BY <2>1, StoppingKeepsInv DEF Reject
<1>3. CASE NoCase
  BY <1>3, StoppingKeepsInv DEF NoCase
<1> QED BY <1>1, <1>2, <1>3 DEF GenerateStatement

(* It is kept by every step.                                               *)
LEMMA NextKeepsInv ==
  ASSUME Inv, [Next]_vars
  PROVE  Inv'
<1>1. CASE EnterScope
  BY <1>1, EnterScopeStep
<1>2. CASE LeaveStatement
  BY <1>2, LeaveStatementStep
<1>3. CASE ScopesProcessed
  BY <1>3, ScopesProcessedStep
<1>4. CASE LeaveList
  BY <1>4, LeaveListStep
<1>5. CASE GenerateStatement
  BY <1>5, GenerateStatementStep
<1>6. CASE MissingReturn
  BY <1>6, StoppingKeepsInv DEF MissingReturn, Reject
<1>7. CASE EndFunction
  BY <1>7, EndFunctionStep
<1>8. CASE Backend
  BY <1>8, BackendStep
<1>9. CASE Run
  BY <1>9, RunStep
<1>10. CASE Stopped \/ UNCHANGED vars
  <2>1. UNCHANGED vars
    BY <1>10 DEF Stopped
  <2>2. (Explained' <=> Explained) /\ (HandedOver' <=> HandedOver)
    BY <2>1 DEF vars, Explained, HandedOver
  <2> QED BY <2>1, <2>2 DEF vars, Inv
<1> QED
  BY <1>1, <1>2, <1>3, <1>4, <1>5, <1>6, <1>7, <1>8, <1>9, <1>10 DEF Next

(* Inv is an invariant of the walks, the generator and the backend.        *)
THEOREM InvHolds == Spec => []Inv
<1>1. Init => Inv
  BY InitKeepsInv
<1>2. Inv /\ [Next]_vars => Inv'
  BY NextKeepsInv
<1> QED BY <1>1, <1>2, PTL DEF Spec

(* It has the kinds of the variables in it.                                *)
LEMMA InvTypes ==
  ASSUME Inv
  PROVE  TypeOK
<1>1. /\ stack \in Seq(Calls)
      /\ Len(stack) > 0
      /\ DOMAIN stack = 1 .. Len(stack)
      /\ context \in Contexts
      /\ has_return \in BOOLEAN
      /\ Bounded(stack, context)
      /\ CallsNest(body, stack, child_scopes)
  BY DEF Inv, CallsNest
<1>2. /\ context.block_count \in Nat
      /\ context.current_block \in Nat
      /\ context.break_end_block \in Nat
  BY <1>1 DEF Contexts
<1>3. /\ context.current_block \in 1 .. context.block_count
      /\ context.break_end_block \in 0 .. context.block_count
  BY <1>1, <1>2 DEF Bounded
<1>4. ASSUME NEW n \in 2 .. Len(stack)
      PROVE  stack[n].path = Within(stack[n - 1].path, stack[n - 1].n, stack[n - 1].within)
  <2>1. n \in 1 .. Len(stack) /\ n > 1
    BY <1>1
  <2> QED BY <1>1, <2>1 DEF CallsNest
<1>5. ASSUME NEW n \in DOMAIN stack
      PROVE  {stack[n].end_block, stack[n].next_block, stack[n].condition_block}
                \subseteq 0 .. context.block_count
  <2>1. stack[n] \in Calls /\ BoundedCall(stack[n], context.block_count)
    BY <1>1 DEF Bounded
  <2>2. stack[n].end_block \in Nat /\ stack[n].next_block \in Nat /\ stack[n].condition_block \in Nat
    BY <2>1 DEF Calls
  <2> QED BY <1>2, <2>1, <2>2 DEF BoundedCall
<1>6. pc \in {"process_scope", "generate", "backend", "run", "returned",
              "error", "aborted", "assert_failed", "verify_failed"}
  BY DEF Inv
<1> QED BY <1>1, <1>3, <1>4, <1>5, <1>6 DEF TypeOK

(* The scope arguments fit, and an if that is within one of its lists      *)
(* knows the scope of the first one.                                       *)
KnowsIfScope(call) ==
    call.within > 0 /\ StatementOf(body, call).kind = "if" =>
        call.if_scope = Within(call.path, call.n, 1)

ArgumentsFit(stk) ==
    /\ stk[1].scope = <<>>
    /\ \A j \in 1 .. Len(stk) : KnowsIfScope(stk[j])
    /\ \A j \in 1 .. Len(stk) - 1 : stk[j + 1].scope = ScopePassed(stk[j])

ScopesPassed == pc = "generate" => ArgumentsFit(stack)

(* The last call changes its own variables only.                           *)
LEMMA ReplacedArgumentsFit ==
  ASSUME NEW stk \in Seq(Calls), Len(stk) > 0, ArgumentsFit(stk),
         NEW top \in Calls, top.scope = TopOf(stk).scope, KnowsIfScope(top)
  PROVE  ArgumentsFit(Replaced(stk, top))
<1> DEFINE stk2 == Replaced(stk, top)
<1>1. PICK N \in Nat \ {0} : N = Len(stk)
  OBVIOUS
<1>2. ReplacesTop(stk2, stk, top)
  BY ReplaceTop
<1>3. top.scope = stk[N].scope
  BY <1>1 DEF TopOf
<1> HIDE DEF stk2
<1>4. /\ Len(stk2) = N
      /\ stk2[N] = top
      /\ \A j \in 1 .. N - 1 : stk2[j] = stk[j]
  BY <1>2, <1>1 DEF ReplacesTop
<1>5. stk2[1].scope = <<>>
  <2>1. stk[1].scope = <<>>
    BY DEF ArgumentsFit
  <2>2. N = 1 \/ 1 \in 1 .. N - 1
    BY <1>1
  <2> QED BY <1>4, <1>3, <2>1, <2>2
<1>6. ASSUME NEW j \in 1 .. N
      PROVE  KnowsIfScope(stk2[j])
  <2>1. j = N \/ j \in 1 .. N - 1
    BY <1>1
  <2> QED BY <1>1, <1>4, <2>1 DEF ArgumentsFit
<1>7. ASSUME NEW j \in 1 .. N - 1
      PROVE  stk2[j + 1].scope = ScopePassed(stk2[j])
  <2>1. stk[j + 1].scope = ScopePassed(stk[j]) /\ stk2[j] = stk[j]
    BY <1>1, <1>4 DEF ArgumentsFit
  <2>2. j + 1 = N \/ j + 1 \in 1 .. N - 1
    BY <1>1
  <2> QED BY <1>4, <1>3, <2>1, <2>2
<1> QED BY <1>1, <1>4, <1>5, <1>6, <1>7 DEF ArgumentsFit, stk2

(* A call that passes the right scope is pushed.                           *)
LEMMA PushedArgumentsFit ==
  ASSUME NEW stk \in Seq(Calls), Len(stk) > 0, ArgumentsFit(stk),
         NEW top \in Calls, top.scope = TopOf(stk).scope, KnowsIfScope(top),
         NEW child \in Calls, child.within = 0, child.scope = ScopePassed(top)
  PROVE  ArgumentsFit(Pushed(stk, top, child))
<1> DEFINE stk2 == Pushed(stk, top, child)
<1>1. PICK N \in Nat \ {0} : N = Len(stk)
  OBVIOUS
<1>2. PushesOnTop(stk2, stk, top, child)
  BY ReplaceTopAndPush
<1>3. top.scope = stk[N].scope
  BY <1>1 DEF TopOf
<1> HIDE DEF stk2
<1>4. /\ Len(stk2) = N + 1
      /\ stk2[N + 1] = child
      /\ stk2[N] = top
      /\ \A j \in 1 .. N - 1 : stk2[j] = stk[j]
  BY <1>1, <1>2 DEF PushesOnTop
<1>5. stk2[1].scope = <<>>
  <2>1. stk[1].scope = <<>>
    BY <1>1 DEF ArgumentsFit
  <2>2. N = 1 \/ 1 \in 1 .. N - 1
    BY <1>1
  <2> QED BY <1>4, <1>3, <2>1, <2>2
<1>6. ASSUME NEW j \in 1 .. N + 1
      PROVE  KnowsIfScope(stk2[j])
  <2>1. KnowsIfScope(child)
    BY DEF KnowsIfScope
  <2>2. j = N + 1 \/ j = N \/ j \in 1 .. N - 1
    BY <1>1
  <2> QED BY <1>4, <2>1, <2>2, <1>1 DEF ArgumentsFit
<1>7. ASSUME NEW j \in 1 .. N
      PROVE  stk2[j + 1].scope = ScopePassed(stk2[j])
  <2>1. CASE j = N
    BY <1>1, <1>4, <2>1
  <2>2. CASE j # N
    <3>1. j \in 1 .. N - 1 /\ (j + 1 = N \/ j + 1 \in 1 .. N - 1)
      BY <1>1, <2>2
    <3>2. stk[j + 1].scope = ScopePassed(stk[j]) /\ stk2[j] = stk[j]
      BY <1>1, <1>4, <3>1 DEF ArgumentsFit
    <3> QED BY <1>1, <1>4, <1>3, <3>1, <3>2
  <2> QED BY <2>1, <2>2
<1> QED BY <1>1, <1>4, <1>5, <1>6, <1>7 DEF ArgumentsFit, stk2

(* The caller goes on.                                                     *)
LEMMA CallersArgumentsFit ==
  ASSUME NEW stk \in Seq(Calls), Len(stk) > 1, ArgumentsFit(stk)
  PROVE  ArgumentsFit(CallersOf(stk))
<1> DEFINE stk2 == CallersOf(stk)
           N == Len(stk)
<1>1. /\ N \in Nat
      /\ Len(stk2) = N - 1
      /\ \A j \in 1 .. N - 1 : stk2[j] = stk[j]
  BY CallersOfStack DEF CallersOf
<1>2. 1 \in 1 .. N - 1
  BY <1>1
<1> HIDE DEF stk2
<1> QED BY <1>1, <1>2 DEF ArgumentsFit, stk2

(* The generator goes on to the next statement.                            *)
LEMMA ProceedsWithScopes ==
  ASSUME Inv, ArgumentsFit(stack), NEW t \in Calls, t.scope = Top.scope,
         Proceed(t)
  PROVE  ArgumentsFit(stack')
<1> DEFINE n == Top.n + 1
           top == [t EXCEPT !.n = n, !.within = 0]
<1>1. n \in Nat \ {0} /\ stack \in Seq(Calls) /\ Len(stack) > 0 /\ Top = TopOf(stack)
  BY TopIsKnown
<1> HIDE DEF n
<1>2. top \in Calls /\ top.scope = t.scope /\ top.within = 0
  BY <1>1 DEF Calls
<1>3. stack' = Replaced(stack, top)
  BY DEF Proceed, Callers, Replaced, n
<1> HIDE DEF top
<1>4. KnowsIfScope(top)
  BY <1>2 DEF KnowsIfScope
<1> QED BY <1>1, <1>2, <1>3, <1>4, ReplacedArgumentsFit

(* It enters the k-th list with the right argument.                        *)
LEMMA EntersWithScope ==
  ASSUME Inv, Inv', ArgumentsFit(stack), NEW t \in Calls,
         t.path = Top.path, t.n = Top.n, t.scope = Top.scope,
         NEW k \in Nat, k > 0, NEW scope \in Paths, Enter(t, k, scope, NextScope),
         NEW first, first = Within(Top.path, Top.n, 1),
         NextScope = Within(Top.path, Top.n, k) =>
            /\ Current.kind = "if" => t.if_scope = first
            /\ Current.kind = "if" /\ k \in 2 .. Conditions(Current) => scope = first
            /\ ~ (Current.kind = "if" /\ k \in 2 .. Conditions(Current)) => scope = NextScope
  PROVE  ArgumentsFit(stack')
<1> DEFINE path == Within(Top.path, Top.n, k)
           child == Call(path, scope, NextScope)
           top == [t EXCEPT !.within = k]
<1>1. /\ stack \in Seq(Calls) /\ Len(stack) > 0 /\ Top = TopOf(stack)
      /\ Top.path \in Paths /\ Top.n \in Nat \ {0} /\ Current = StatementOf(body, Top)
  BY TopIsKnown DEF Calls
<1>2. path \in Paths /\ NextScope \in Paths
  BY <1>1, WithinIsPath, NextScopeIsPath
<1>3. stack' = Pushed(stack, top, child)
  BY DEF Enter, Callers, Pushed
<1> HIDE DEF path
<1>4. child \in Calls /\ child.path = path /\ child.scope = scope /\ child.within = 0
      /\ child.variable_scope = NextScope
  <2>1. <<>> \in Paths
    BY DEF Paths
  <2> QED BY <1>2, <2>1 DEF Call, Calls
<1>5. top \in Calls /\ top.scope = t.scope /\ top.within = k /\ top.path = t.path /\ top.n = t.n
      /\ top.if_scope = t.if_scope
  BY DEF Calls
<1> HIDE DEF child, top
<1>6. TopOf(stack') = child
  <2>1. PushesOnTop(stack', stack, top, child)
    BY <1>1, <1>3, <1>4, <1>5, ReplaceTopAndPush
  <2> QED BY <1>1, <2>1 DEF PushesOnTop, TopOf
<1>7. NextScope = path
  <2>1. CallsNest(body', stack', child_scopes')
    BY DEF Inv
  <2>2. TopOf(stack').variable_scope = TopOf(stack').path
    BY <2>1, TopIsCall
  <2> QED BY <1>4, <1>6, <2>2
<1>8. StatementOf(body, top) = Current
  BY <1>1, <1>5 DEF StatementOf, ListOf
<1>9. KnowsIfScope(top)
  BY <1>5, <1>7, <1>8 DEF KnowsIfScope, path
<1>10. child.scope = ScopePassed(top)
  <2>1. StatementsAt(body, top.path)[top.n] = Current
    BY <1>8 DEF StatementOf, ListOf
  <2> QED BY <1>4, <1>5, <1>7, <2>1 DEF ScopePassed, path
<1> QED BY <1>1, <1>3, <1>4, <1>5, <1>9, <1>10, PushedArgumentsFit

(* The argument for the list behind the k-th condition.                    *)
LEMMA ConditionPassesScope ==
  ASSUME Inv, Inv', ArgumentsFit(stack), Current.kind = "if",
         NEW c, NEW k \in Nat, k > 0, NEW end_block \in Nat, NEW if_scope \in Paths,
         c.block_count \in Nat,
         k = 1 => if_scope = NextScope,
         k > 1 => if_scope = Within(Top.path, Top.n, 1),
         k <= Conditions(Current), Conditions(Current) \in Nat,
         Condition(c, k, end_block, if_scope)
  PROVE  ArgumentsFit(stack')
<1> DEFINE next_block == BlockAfter(IsLast(k), end_block, c.block_count + 1)
           t == [Top EXCEPT !.end_block = end_block, !.next_block = next_block,
                            !.if_scope = if_scope]
<1>1. Enter(t, k, if_scope, NextScope)
  BY DEF Condition
<1>2. next_block \in Nat
  BY DEF BlockAfter
<1> HIDE DEF next_block
<1>3. t \in Calls /\ t.path = Top.path /\ t.n = Top.n /\ t.scope = Top.scope /\ t.if_scope = if_scope
  BY <1>2, TopIsKnown DEF Calls
<1> HIDE DEF t
<1>4. k = 1 <=> ~ (k \in 2 .. Conditions(Current))
  OBVIOUS
<1> QED BY <1>1, <1>3, <1>4, EntersWithScope

LEMMA IfPassesScope ==
  ASSUME Inv, Inv', ArgumentsFit(stack), If
  PROVE  ArgumentsFit(stack')
<1> DEFINE end_block == context.block_count + 1
           c == [context EXCEPT !.block_count = end_block]
<1>1. Begins("if") /\ Begun = context /\ Condition(c, 1, end_block, NextScope)
  BY BeginningIs DEF If
<1>2. Generating /\ ~ AtEnd /\ Current.kind = "if" /\ context \in Contexts
  BY <1>1 DEF Begins, Generating, Inv
<1>3. end_block \in Nat /\ c.block_count = end_block
  BY <1>2 DEF Contexts
<1>4. 1 <= Conditions(Current) /\ Conditions(Current) \in Nat
  BY <1>2, CurrentIsKnown, BodyCountOf
<1> HIDE DEF c, end_block
<1> QED BY <1>1, <1>2, <1>3, <1>4, NextScopeIsPath, ConditionPassesScope

LEMMA ElseIfPassesScope ==
  ASSUME Inv, Inv', ArgumentsFit(stack), ElseIf
  PROVE  ArgumentsFit(stack')
<1> DEFINE c == change_block(FinishWithJump(context, Top.end_block), Top.next_block)
           k == Top.within + 1
<1>1. Resumes("if") /\ Top.within < Conditions(Current) /\ Condition(c, k, Top.end_block, Top.if_scope)
  BY DEF ElseIf
<1>2. /\ Generating
      /\ ~ AtEnd
      /\ Current.kind = "if"
      /\ Top.within \in Nat
      /\ Top.within > 0
      /\ Top.end_block \in Nat
  BY <1>1, ResumingIs DEF Generating
<1>3. Conditions(Current) \in Nat
  BY <1>2, CurrentIsKnown
<1>4. k \in Nat /\ k > 1 /\ k <= Conditions(Current) /\ Top.within <= Conditions(Current)
  BY <1>1, <1>2, <1>3
<1>5. c.block_count \in Nat
  <2>1. c.block_count = context.block_count
    BY <1>1, <1>4, NextBranch
  <2> QED BY <1>2, <2>1, ContextContinues
<1>6. Top.if_scope = Within(Top.path, Top.n, 1) /\ Top.if_scope \in Paths
  <2>1. /\ Top = stack[Len(stack)] /\ Len(stack) \in 1 .. Len(stack)
        /\ Current = StatementOf(body, Top) /\ Top.if_scope \in Paths
    BY TopIsKnown DEF TopOf, Calls
  <2> QED BY <1>2, <2>1 DEF ArgumentsFit, KnowsIfScope
<1> HIDE DEF c, k
<1> QED BY <1>1, <1>2, <1>3, <1>4, <1>5, <1>6, ConditionPassesScope

LEMMA ElsePassesScope ==
  ASSUME Inv, Inv', ArgumentsFit(stack), Else
  PROVE  ArgumentsFit(stack')
<1> DEFINE k == Top.within + 1
<1>1. /\ Resumes("if")
      /\ Top.within = Conditions(Current)
      /\ Enter(Top, k, NextScope, NextScope)
  BY DEF Else
<1>2. /\ Current.kind = "if"
      /\ Top.within \in Nat
      /\ Top.within > 0
      /\ Top \in Calls
  BY <1>1, ResumingIs, TopIsKnown
<1>3. k \in Nat /\ k > 0 /\ ~ (k \in 2 .. Conditions(Current))
  BY <1>1, <1>2
<1>4. Top.if_scope = Within(Top.path, Top.n, 1)
  <2>1. /\ Top = stack[Len(stack)] /\ Len(stack) \in 1 .. Len(stack)
        /\ Current = StatementOf(body, Top)
    BY TopIsKnown DEF TopOf
  <2> QED BY <1>2, <2>1 DEF ArgumentsFit, KnowsIfScope
<1> HIDE DEF k
<1> QED BY <1>1, <1>2, <1>3, <1>4, NextScopeIsPath, EntersWithScope

LEMMA LoopPassesScope ==
  ASSUME Inv, Inv', ArgumentsFit(stack), Current.kind # "if",
         NEW c, Good(body, child_scopes, c, PendingOfCallers), IsOpen(c),
         c.current_block > 0, c.current_block <= c.block_count,
         NEW targets, Loop(c, targets)
  PROVE  ArgumentsFit(stack')
<1> DEFINE end_block == c.block_count + 1
           body_block == c.block_count + 2
           a == [c EXCEPT !.block_count = body_block]
           condition == enter_new_block(a)
           t == [Top EXCEPT !.end_block = end_block,
                            !.condition_block = condition.current_block,
                            !.old_break_end_block = context.break_end_block]
<1>1. Enter(t, 1, NextScope, NextScope)
  BY DEF Loop
<1>2. /\ c.block_count \in Nat /\ c.current_block \in Nat
      /\ end_block \in Nat /\ body_block \in Nat /\ c.block_count <= body_block
      /\ context.break_end_block \in Nat
  <2>1. c \in Contexts /\ context \in Contexts
    BY DEF Inv, Good
  <2> QED BY <2>1 DEF Contexts
<1> HIDE DEF end_block, body_block
<1>3. /\ Good(body, child_scopes, a, PendingOfCallers)
      /\ IsOpen(a)
      /\ a.current_block = c.current_block
      /\ a.block_count = body_block
  BY <1>2, AllocateStaysGood
<1> HIDE DEF a
<1>4. a.current_block > 0 /\ a.current_block <= a.block_count
  BY <1>2, <1>3
<1>5. condition.current_block \in Nat
  <2>1. OpensBlock(body, child_scopes, a, PendingOfCallers, condition)
    BY <1>3, <1>4, NewBlockBegins DEF condition
  <2> HIDE DEF condition
  <2> QED BY <2>1 DEF OpensBlock
<1> HIDE DEF condition
<1>6. t \in Calls /\ t.path = Top.path /\ t.n = Top.n /\ t.scope = Top.scope
  BY <1>2, <1>5, TopIsKnown DEF Calls
<1> HIDE DEF t
<1> QED BY <1>1, <1>6, NextScopeIsPath, EntersWithScope

LEMMA WhilePassesScope ==
  ASSUME Inv, Inv', ArgumentsFit(stack), While
  PROVE  ArgumentsFit(stack')
<1> DEFINE targets == <<context.block_count + 2, context.block_count + 1>>
<1>1. Begins("while") /\ Begun = context /\ Loop(context, targets)
  BY BeginningIs DEF While
<1> HIDE DEF targets
<1>2. /\ Current.kind # "if"
      /\ Generating
      /\ IsOpen(context)
      /\ Good(body, child_scopes, context, PendingOfCallers)
  BY <1>1, BeginningIs DEF Begins
<1>3. context.current_block > 0 /\ context.current_block <= context.block_count
  BY <1>2, ContextContinues
<1> QED BY <1>1, <1>2, <1>3, LoopPassesScope

LEMMA ForPassesScope ==
  ASSUME Inv, Inv', ArgumentsFit(stack), For
  PROVE  ArgumentsFit(stack')
<1> DEFINE targets == <<context.block_count + 1, context.block_count + 2>>
           i == Instruction("other", Here(0), <<>>)
           c == Emit(context, i)
<1>1. Begins("for") /\ Begun = context /\ Loop(c, targets)
  BY BeginningIs DEF For
<1>2. i \in Instructions /\ i.kind = "other" /\ i.targets = <<>>
  BY PlainInstructions
<1> HIDE DEF i, targets
<1>3. LeadTo(<<i>>, PendingOfCallers)
  BY <1>2 DEF LeadTo
<1>4. /\ Good(body, child_scopes, c, PendingOfCallers)
      /\ IsOpen(c)
      /\ Continues(context, c)
      /\ c.block_count = context.block_count
  BY <1>1, <1>2, <1>3, EmitsAtBeginning DEF Terminators
<1>5. Current.kind # "if"
  BY <1>1 DEF Begins
<1>6. c.current_block > 0 /\ c.current_block <= c.block_count
  BY <1>4 DEF Continues
<1> HIDE DEF c
<1> QED BY <1>1, <1>4, <1>5, <1>6, LoopPassesScope

(* The steps of the generator that go on to the next statement.            *)
LEMMA ProceedingPassesScopes ==
  ASSUME Inv, ArgumentsFit(stack),
         \/ Declaration \/ Effect \/ Nothing \/ Return \/ Break
         \/ EndIf \/ EndWhile \/ EndFor
  PROVE  ArgumentsFit(stack')
<1>1. Top \in Calls
  BY TopIsKnown
<1>2. CASE Proceed(Top)
  BY <1>1, <1>2, ProceedsWithScopes
<1>3. CASE Leave
  <2> DEFINE left == LeavesList(Current.kind)
             t == [Top EXCEPT !.unreachable = left]
  <2>1. left \in BOOLEAN /\ Proceed(t)
    BY <1>3 DEF LeavesList, Leave
  <2> HIDE DEF left
  <2>2. t \in Calls /\ t.scope = Top.scope
    BY <1>1, <2>1 DEF Calls
  <2> HIDE DEF t
  <2> QED BY <2>1, <2>2, ProceedsWithScopes
<1> QED
  BY <1>2, <1>3 DEF Declaration, Effect, Nothing, Return, Break, EndIf, EndWhile, EndFor

(* A walk that begins has one call.                                        *)
LEMMA FirstArgumentsFit == ArgumentsFit(<<FirstCall>>)
BY DEF ArgumentsFit, FirstCall, Call, KnowsIfScope

(* The body never changes.                                                 *)
LEMMA NextKeepsBody ==
  ASSUME [Next]_vars
  PROVE  UNCHANGED body
<1>1. CASE \/ EnterScope \/ LeaveStatement \/ ScopesProcessed \/ LeaveList \/ MissingReturn
           \/ EndFunction \/ Backend \/ Run \/ Stopped \/ UNCHANGED vars
  BY <1>1 DEF EnterScope, LeaveStatement, ScopesProcessed, LeaveList, MissingReturn, Reject,
              EndFunction, Backend, Run, Stopped, vars
<1>2. CASE \/ Declaration \/ UnreachableCode \/ TypeError \/ StartOver \/ NoCase \/ BreakOutsideLoop
  BY <1>2 DEF Declaration, UnreachableCode, TypeError, StartOver, NoCase, BreakOutsideLoop, Reject
<1>3. CASE \/ Effect \/ Nothing \/ Return \/ Break \/ Else \/ EndIf \/ EndWhile \/ EndFor
  BY <1>3 DEF Effect, Nothing, Return, Break, Else, EndIf, EndWhile, EndFor, Commit
<1>4. CASE If \/ ElseIf
  BY <1>4 DEF If, ElseIf, Condition, Commit
<1>5. CASE While \/ For
  BY <1>5 DEF While, For, Loop, Commit
<1> QED BY <1>1, <1>2, <1>3, <1>4, <1>5 DEF Next, GenerateStatement

(* Every step of the generator passes the right scopes.                    *)
LEMMA NextPassesScopes ==
  ASSUME Inv, Inv', ScopesPassed, [Next]_vars
  PROVE  ScopesPassed'
<1> SUFFICES ASSUME pc' = "generate"
             PROVE  ArgumentsFit(stack)'
  BY DEF ScopesPassed
<1>1. UNCHANGED body => (ArgumentsFit(stack)' <=> ArgumentsFit(stack'))
  BY DEF ArgumentsFit, KnowsIfScope, ScopePassed, StatementOf, ListOf
<1>2. UNCHANGED body
  BY NextKeepsBody
<1>3. CASE ScopesProcessed \/ StartOver
  <2>1. stack' = <<FirstCall>>
    BY <1>3 DEF ScopesProcessed, StartOver
  <2> QED BY <1>1, <1>2, <2>1, FirstArgumentsFit
<1>4. CASE UNCHANGED vars \/ Stopped
  BY <1>1, <1>4 DEF vars, Stopped, ScopesPassed
<1>5. CASE LeaveList
  <2>1. pc = "generate" /\ stack' = CallersOf(stack) /\ Len(stack) > 1
    BY <1>5 DEF LeaveList, Callers, CallersOf
  <2> QED
    BY <1>1, <1>2, <2>1, TopIsKnown, CallersArgumentsFit DEF ScopesPassed
<1>6. CASE \/ Declaration \/ Effect \/ Nothing \/ Return \/ Break
           \/ EndIf \/ EndWhile \/ EndFor
  <2>1. ArgumentsFit(stack)
    BY <1>6 DEF ScopesPassed, Declaration, Effect, Nothing, Return, Break, EndIf, EndWhile, EndFor,
                Begins, Resumes, Generating
  <2> QED BY <1>1, <1>2, <1>6, <2>1, ProceedingPassesScopes
<1>7. CASE If \/ ElseIf \/ Else \/ While \/ For
  <2>1. ArgumentsFit(stack)
    BY <1>7 DEF ScopesPassed, If, ElseIf, Else, While, For, Begins, Resumes, Generating
  <2> QED
    BY <1>1, <1>2, <1>7, <2>1, IfPassesScope, ElseIfPassesScope, ElsePassesScope, WhilePassesScope,
       ForPassesScope
<1>8. CASE \/ UnreachableCode \/ TypeError \/ NoCase \/ BreakOutsideLoop \/ MissingReturn
           \/ EndFunction \/ Backend \/ Run \/ EnterScope \/ LeaveStatement
  BY <1>8 DEF UnreachableCode, TypeError, NoCase, BreakOutsideLoop, MissingReturn, Reject,
              EndFunction, Backend, Run, EnterScope, LeaveStatement
<1> QED BY <1>3, <1>4, <1>5, <1>6, <1>7, <1>8 DEF Next, GenerateStatement

(* It has the scopes of the calls in it.                                   *)
LEMMA InvMatchesScopes ==
  ASSUME Inv, ScopesPassed
  PROVE  ScopesMatch
<1> SUFFICES ASSUME pc = "generate"
             PROVE  /\ \A n \in DOMAIN stack : stack[n].variable_scope = stack[n].path
                    /\ stack[1].scope = <<>>
                    /\ \A n \in 2 .. Len(stack) : stack[n].scope = ScopePassed(stack[n - 1])
  BY DEF ScopesMatch
<1>1. stack \in Seq(Calls) /\ CallsNest(body, stack, child_scopes) /\ ArgumentsFit(stack)
  BY DEF Inv, CallsNest, ScopesPassed
<1>2. ASSUME NEW n \in DOMAIN stack
      PROVE  stack[n].variable_scope = stack[n].path
  BY <1>1 DEF CallsNest, IsCallOf
<1>3. ASSUME NEW n \in 2 .. Len(stack)
      PROVE  stack[n].scope = ScopePassed(stack[n - 1])
  <2>1. n - 1 \in 1 .. Len(stack) - 1 /\ (n - 1) + 1 = n
    BY <1>1
  <2> QED BY <1>1, <2>1 DEF ArgumentsFit
<1> QED BY <1>1, <1>2, <1>3 DEF ArgumentsFit

(* It has the bodies that LLVM does not accept in it.                      *)
LEMMA InvExplains ==
  ASSUME Inv
  PROVE  RejectionsExplained
<1>1. DOMAIN child_scopes = 1 .. Len(child_scopes)
  BY DEF Inv
<1>2. ASSUME LeftFor(body, child_scopes)
      PROVE  \E n \in ForBodies :
                EndsByLeaving(StatementsAt(body, child_scopes[n]), {"return", "break"})
  BY <1>1, <1>2 DEF LeftFor, ForBodies
<1> QED BY <1>2 DEF Inv, Explained, RejectionsExplained

(* The calls of both walks follow one another into the body, and know only *)
(* blocks that were allocated.                                             *)
THEOREM FunctionIsTyped == Spec => []TypeOK
<1>1. Inv => TypeOK
  BY InvTypes
<1> QED BY <1>1, InvHolds, PTL

(* No assert of the generator about blocks and scopes fails, and no        *)
(* assert(found_block) of the backend: whatever the body, and however      *)
(* often the job starts over.                                              *)
THEOREM NoAssertionFails == Spec => []AssertionsHold
<1>1. Inv => AssertionsHold
  BY DEF Inv, AssertionsHold
<1> QED BY <1>1, InvHolds, PTL

(* The second walk takes every scope for the list it was made for, for the *)
(* variables of the list, and passes it as the scope of the list, or that  *)
(* of the first list of the if where it enters the list of an else-if.     *)
THEOREM ScopesAreTakenInOrder == Spec => []ScopesMatch
<1>1. Init => Inv /\ ScopesPassed
  BY InitKeepsInv DEF Init, ScopesPassed
<1>2. (Inv /\ ScopesPassed) /\ [Next]_vars => (Inv /\ ScopesPassed)'
  BY NextKeepsInv, NextPassesScopes
<1>3. Inv /\ ScopesPassed => ScopesMatch
  BY InvMatchesScopes
<1> QED BY <1>1, <1>2, <1>3, PTL DEF Spec

(* LLVM refuses nothing but the for-loops that end by leaving them and the *)
(* bodies that return before a last declaration.                           *)
THEOREM NothingElseIsRejected == Spec => []RejectionsExplained
<1>1. Inv => RejectionsExplained
  BY InvExplains
<1> QED BY <1>1, InvHolds, PTL

(***************************************************************************)
(* The blocks of a function do what its statements say: from here on,      *)
(* FunctionBody implements StructuredProgram.                              *)
(*                                                                         *)
(* Every block that was allocated has a meaning m[block], what happens     *)
(* next in the structured program where the block begins.  A block flows   *)
(* if each of its instructions is followed by what the structured program  *)
(* may do after it.  The generator keeps the blocks that it emitted and    *)
(* the one it is in flowing, and the pending ones (the ends, the else-ifs) *)
(* mean what the calls of the walk expect; the last three sections take    *)
(* that to the code that runs.  A row of jumps ends because a jump leads   *)
(* ahead, or to a block that does not begin with a jump.                   *)
(***************************************************************************)

(***************************************************************************)
(* Functions that go on until they end                                     *)
(***************************************************************************)

(* A trail of N steps, from p to q.                                        *)
IsTrail(silent, step, t, N, p, q) ==
    /\ t[0] = p
    /\ t[N] = q
    /\ \A n \in 0 .. N - 1 : t[n] \in silent /\ t[n + 1] = step[t[n]]

(* Where the trails from p end: nowhere if they go on forever.             *)
TrailEnds(S, silent, step, p) ==
    {q \in S \ silent : \E N \in Nat : \E t \in [0 .. N -> S] : IsTrail(silent, step, t, N, p, q)}

(* A step does not change where they end.                                  *)
LEMMA TrailsGoOn ==
  ASSUME NEW S, NEW silent \in SUBSET S, NEW step \in [silent -> S], NEW p \in silent
  PROVE  TrailEnds(S, silent, step, p) = TrailEnds(S, silent, step, step[p])
<1>1. ASSUME NEW q \in S \ silent, NEW N \in Nat, NEW t \in [0 .. N -> S], IsTrail(silent, step, t, N, p, q)
      PROVE  \E M \in Nat : \E u \in [0 .. M -> S] : IsTrail(silent, step, u, M, step[p], q)
  <2>1. N # 0
    BY <1>1 DEF IsTrail
  <2>2. PICK M \in Nat : N = M + 1
    <3>1. N - 1 \in Nat /\ N = (N - 1) + 1
      BY <2>1
    <3> QED BY <3>1
  <2> DEFINE u == [n \in 0 .. M |-> t[n + 1]]
  <2>3. u \in [0 .. M -> S]
    BY <2>2
  <2>4. u[0] = step[p] /\ u[M] = q
    BY <1>1, <2>2 DEF IsTrail
  <2>5. ASSUME NEW n \in 0 .. M - 1
        PROVE  u[n] \in silent /\ u[n + 1] = step[u[n]]
    <3>1. n + 1 \in 0 .. N - 1 /\ u[n] = t[n + 1] /\ u[n + 1] = t[(n + 1) + 1]
      BY <2>2
    <3> QED BY <1>1, <3>1 DEF IsTrail
  <2> HIDE DEF u
  <2>6. IsTrail(silent, step, u, M, step[p], q)
    BY <2>4, <2>5 DEF IsTrail
  <2> QED BY <2>3, <2>6
<1>2. ASSUME NEW q \in S \ silent, NEW M \in Nat, NEW u \in [0 .. M -> S], IsTrail(silent, step, u, M, step[p], q)
      PROVE  \E N \in Nat : \E t \in [0 .. N -> S] : IsTrail(silent, step, t, N, p, q)
  <2> DEFINE N == M + 1
             t == [n \in 0 .. N |-> IF n = 0 THEN p ELSE u[n - 1]]
  <2>1. t \in [0 .. N -> S] /\ N \in Nat
    OBVIOUS
  <2>2. t[0] = p /\ t[N] = q
    BY <1>2 DEF IsTrail
  <2>3. ASSUME NEW n \in 0 .. N - 1
        PROVE  t[n] \in silent /\ t[n + 1] = step[t[n]]
    <3>1. CASE n = 0
      BY <1>2, <3>1 DEF IsTrail
    <3>2. CASE n # 0
      <4>1. n - 1 \in 0 .. M - 1 /\ t[n] = u[n - 1] /\ t[n + 1] = u[(n - 1) + 1]
        BY <3>2
      <4> QED BY <1>2, <4>1 DEF IsTrail
    <3> QED BY <3>1, <3>2
  <2> HIDE DEF t, N
  <2>4. IsTrail(silent, step, t, N, p, q)
    BY <2>2, <2>3 DEF IsTrail
  <2> QED BY <2>1, <2>4
<1> QED BY <1>1, <1>2 DEF TrailEnds

(* Where there is no step, they end at once.                               *)
LEMMA TrailsEndAtOnce ==
  ASSUME NEW S, NEW silent \in SUBSET S, NEW step \in [silent -> S], NEW p \in S \ silent
  PROVE  TrailEnds(S, silent, step, p) = {p}
<1>1. ASSUME NEW q \in S \ silent, NEW N \in Nat, NEW t \in [0 .. N -> S], IsTrail(silent, step, t, N, p, q)
      PROVE  q = p
  <2>1. CASE N = 0
    BY <1>1, <2>1 DEF IsTrail
  <2>2. CASE N # 0
    <3>1. 0 \in 0 .. N - 1
      BY <2>2
    <3> QED BY <1>1, <3>1 DEF IsTrail
  <2> QED BY <2>1, <2>2
<1>2. \E t \in [0 .. 0 -> S] : IsTrail(silent, step, t, 0, p, p)
  <2> DEFINE t == [n \in 0 .. 0 |-> p]
  <2>1. t \in [0 .. 0 -> S] /\ t[0] = p
    OBVIOUS
  <2> HIDE DEF t
  <2> QED BY <2>1 DEF IsTrail
<1>3. p \in TrailEnds(S, silent, step, p)
  <2>1. 0 \in Nat
    OBVIOUS
  <2> QED BY <1>2, <2>1 DEF TrailEnds
<1>4. \A q \in TrailEnds(S, silent, step, p) : q = p
  BY <1>1 DEF TrailEnds
<1> QED BY <1>3, <1>4

(* f goes on along the silent members of S, and has a value at the others. *)
IsTailRecursive(f, S, silent, step, value) ==
    f = [p \in S |-> IF p \in silent THEN f[step[p]] ELSE value[p]]

(* A function that goes from place to place until it has a value: there is *)
(* one, even where it never ends.                                          *)
LEMMA TailRecursion ==
  ASSUME NEW S, NEW silent \in SUBSET S, NEW step \in [silent -> S],
         NEW V, NEW value \in [S -> V]
  PROVE  \E f : IsTailRecursive(f, S, silent, step, value)
<1> DEFINE Ends(p) == TrailEnds(S, silent, step, p)
           Of(ends) == CHOOSE v : v \in {value[q] : q \in ends}
           f == [p \in S |-> Of(Ends(p))]
<1>1. ASSUME NEW p \in S
      PROVE  f[p] = IF p \in silent THEN f[step[p]] ELSE value[p]
  <2>1. CASE p \in silent
    <3>1. Ends(p) = Ends(step[p]) /\ step[p] \in S
      BY <2>1, TrailsGoOn
    <3>2. f[p] = Of(Ends(p)) /\ f[step[p]] = Of(Ends(step[p]))
      <4> HIDE DEF Of, Ends
      <4> QED BY <3>1
    <3> QED BY <2>1, <3>1, <3>2
  <2>2. CASE p \notin silent
    <3>1. Ends(p) = {p}
      BY <2>2, TrailsEndAtOnce
    <3>2. {value[q] : q \in {p}} = {value[p]}
      OBVIOUS
    <3>3. Of({p}) = value[p]
      BY <3>2
    <3>4. f[p] = Of(Ends(p))
      OBVIOUS
    <3> HIDE DEF Of, Ends, f
    <3> QED BY <2>2, <3>1, <3>3, <3>4
  <2> QED BY <2>1, <2>2
<1>2. f = [p \in S |-> f[p]]
  OBVIOUS
<1> HIDE DEF f
<1>3. IsTailRecursive(f, S, silent, step, value)
  BY <1>1, <1>2 DEF IsTailRecursive
<1> QED BY <1>3

(***************************************************************************)
(* What comes next in the structured program                               *)
(***************************************************************************)

(* The structured program reads the statements as the generator does.      *)
LEMMA SameTree ==
  /\ Structured!End = End
  /\ Structured!Increment = Increment
  /\ \A path, n, part : Structured!Point(path, n, part) = Point(path, n, part)
  /\ \A path, n, k : Structured!Within(path, n, k) = Within(path, n, k)
  /\ \A statement : Structured!IsLoop(statement) <=> IsLoop(statement)
  /\ \A statement : Structured!HasElse(statement) <=> HasElse(statement)
  /\ \A statement : Structured!Conditions(statement) = Conditions(statement)
  /\ \A b, path : Structured!StatementsAt(b, path) = StatementsAt(b, path)
<1>1. ASSUME NEW b, NEW path
      PROVE  Structured!StatementsAt(b, path) = StatementsAt(b, path)
  BY DEF Structured!StatementsAt, StatementsAt, Structured!BodyOf, BodyOf,
         Structured!Conditions, Conditions
<1> QED
  BY <1>1 DEF Structured!End, End, Structured!Increment, Increment, Structured!Point, Point,
              Structured!Within, Within, Structured!IsLoop, IsLoop,
              Structured!HasElse, HasElse, Structured!Conditions, Conditions

(* A set of numbers up to N has a greatest one.                            *)
LEMMA MaxExists ==
  ASSUME NEW N \in Nat, NEW U \in SUBSET (1 .. N), U # {}
  PROVE  \E k \in U : \A l \in U : l <= k
<1> DEFINE V == {N - k : k \in U}
<1>1. V \in SUBSET Nat /\ V # {}
  <2>1. \A k \in U : N - k \in Nat
    OBVIOUS
  <2>2. PICK k \in U : TRUE
    OBVIOUS
  <2>3. N - k \in V
    OBVIOUS
  <2> QED BY <2>1, <2>3
<1>2. PICK x \in V : \A y \in V : x <= y
  <2> HIDE DEF V
  <2> QED BY <1>1, LeastNatural
<1>3. PICK k \in U : x = N - k
  BY <1>2
<1>4. ASSUME NEW l \in U
      PROVE  l <= k
  <2>1. N - l \in V
    OBVIOUS
  <2> QED BY <1>2, <1>3, <2>1
<1> QED BY <1>4

(* The statement that holds a list of a path is at a place.                *)
LEMMA HolderIsPlace ==
  ASSUME NEW path \in Paths, NEW n \in 1 .. Len(path)
  PROVE  Structured!Holder(path, n) \in Paths \X Nat
<1>1. PICK N \in Nat : N = Len(path)
  BY DEF Paths
<1>2. path[n] \in Nat \X Nat
  BY DEF Paths
<1>3. SubSeq(path, 1, n - 1) \in Paths
  BY <1>1, SubSeqProperties DEF Paths
<1> QED BY <1>2, <1>3 DEF Structured!Holder

(* So is the innermost loop around a list.                                 *)
LEMMA InnermostLoopIs ==
  ASSUME NEW b, NEW path \in Paths, Structured!Loops(b, path) # {}
  PROVE  \E k \in Structured!Loops(b, path) :
            /\ \A l \in Structured!Loops(b, path) : l <= k
            /\ k \in 1 .. Len(path)
            /\ Structured!InnermostLoop(b, path) = Structured!Holder(path, k)
<1> DEFINE L == Structured!Loops(b, path)
<1>1. Len(path) \in Nat
  BY DEF Paths
<1>2. L \in SUBSET (1 .. Len(path))
  BY DEF Structured!Loops
<1>3. Structured!InnermostLoop(b, path) = Structured!Holder(path, CHOOSE k \in L : \A l \in L : l <= k)
  BY DEF Structured!InnermostLoop
<1> HIDE DEF L
<1>4. \E k \in L : \A l \in L : l <= k
  BY <1>1, <1>2, MaxExists DEF L
<1> QED BY <1>2, <1>3, <1>4 DEF L

(* Places are made of a path and a number.                                 *)
LEMMA PlacesAre ==
  Structured!Places = Paths \X Nat
BY DEF Structured!Places, Paths

(* Control goes on from a place to another.                                *)
LEMMA OnwardsIsPlace ==
  ASSUME NEW b, NEW path \in Paths, NEW n \in Nat, Structured!IsSilent(b, <<path, n>>)
  PROVE  Structured!Onwards(b, <<path, n>>) \in Paths \X Nat
<1> DEFINE place == <<path, n>>
           to == IF Structured!AtEndOfList(b, place) THEN Structured!Outer(place)
                 ELSE IF Structured!StatementOn(b, place).kind = "break"
                        THEN Structured!InnermostLoop(b, place[1])
                 ELSE place
<1>1. to \in Paths \X Nat
  <2>1. CASE Structured!AtEndOfList(b, place)
    <3>1. path # <<>>
      BY <2>1 DEF Structured!IsSilent
    <3>2. Len(path) \in 1 .. Len(path)
      BY <3>1, EmptySeq DEF Paths
    <3> QED BY <2>1, <3>2, HolderIsPlace DEF Structured!Outer
  <2>2. CASE ~ Structured!AtEndOfList(b, place) /\ Structured!StatementOn(b, place).kind = "break"
    <3>1. Structured!Loops(b, path) # {}
      BY <2>2 DEF Structured!IsSilent
    <3> QED BY <2>2, <3>1, InnermostLoopIs, HolderIsPlace
  <2>3. CASE ~ Structured!AtEndOfList(b, place) /\ Structured!StatementOn(b, place).kind # "break"
    BY <2>3
  <2> QED BY <2>1, <2>2, <2>3
<1>2. Structured!Onwards(b, place) = <<to[1], to[2] + 1>>
  BY DEF Structured!Onwards, Structured!After
<1> QED BY <1>1, <1>2

(* What comes from a place onwards.                                        *)
Comes(b, path, n) == Structured!Upcoming(b)[<<path, n>>]

(* Upcoming is what its definition says: TailRecursion of the places.      *)
LEMMA UpcomingGoesOn ==
  ASSUME NEW b, NEW path \in Paths, NEW n \in Nat
  PROVE  Comes(b, path, n) =
            IF Structured!IsSilent(b, <<path, n>>)
              THEN Structured!Upcoming(b)[Structured!Onwards(b, <<path, n>>)]
              ELSE Structured!Happening(b, <<path, n>>)
<1> DEFINE S == Structured!Places
           silent == {p \in S : Structured!IsSilent(b, p)}
           step == [p \in silent |-> Structured!Onwards(b, p)]
           value == [p \in S |-> Structured!Happening(b, p)]
           D(f) == [place \in Structured!Places |->
                      IF Structured!IsSilent(b, place) THEN f[Structured!Onwards(b, place)]
                                                       ELSE Structured!Happening(b, place)]
           from == CHOOSE f : f = D(f)
<1>1. Structured!Upcoming(b) = from
  BY DEF Structured!Upcoming
<1>2. \E f : f = D(f)
  <2>1. silent \in SUBSET S
    OBVIOUS
  <2>2. step \in [silent -> S]
    BY OnwardsIsPlace, PlacesAre
  <2> DEFINE V == {Structured!Happening(b, p) : p \in S}
  <2>5. value \in [S -> V]
    OBVIOUS
  <2>3. PICK f : IsTailRecursive(f, S, silent, step, value)
    <3> HIDE DEF S, silent, step, value, V
    <3> QED BY <2>1, <2>2, <2>5, TailRecursion
  <2>4. [p \in S |-> IF p \in silent THEN f[step[p]] ELSE value[p]] = D(f)
    OBVIOUS
  <2>6. f = [p \in S |-> IF p \in silent THEN f[step[p]] ELSE value[p]]
    <3> HIDE DEF S, silent, step, value
    <3> QED BY <2>3 DEF IsTailRecursive
  <2> HIDE DEF D, silent, step, value, S
  <2> QED BY <2>4, <2>6
<1>3. from = D(from)
  <2> HIDE DEF D
  <2> QED BY <1>2
<1>4. <<path, n>> \in Structured!Places
  BY PlacesAre
<1>5. from[<<path, n>>] = D(from)[<<path, n>>]
  <2> HIDE DEF D, from
  <2> QED BY <1>3
<1> HIDE DEF from
<1>6. D(from)[<<path, n>>] = IF Structured!IsSilent(b, <<path, n>>)
                            THEN from[Structured!Onwards(b, <<path, n>>)]
                            ELSE Structured!Happening(b, <<path, n>>)
  BY <1>4
<1>7. Comes(b, path, n) = from[<<path, n>>]
  BY <1>1 DEF Comes
<1> QED BY <1>1, <1>5, <1>6, <1>7

(* The statement that holds a list further in, and those on the way to it. *)
LEMMA HolderWithin ==
  ASSUME NEW p \in Paths, NEW m \in Nat, NEW k \in Nat
  PROVE  /\ Len(p) \in Nat
         /\ Len(Within(p, m, k)) = Len(p) + 1
         /\ Structured!Holder(Within(p, m, k), Len(p) + 1) = <<p, m>>
         /\ \A i \in 1 .. Len(p) : Structured!Holder(Within(p, m, k), i) = Structured!Holder(p, i)
<1> DEFINE w == Within(p, m, k)
<1>1. PICK N \in Nat : N = Len(p)
  BY DEF Paths
<1>2. /\ w \in Paths
      /\ Len(w) = N + 1
      /\ w[N + 1] = <<m, k>>
      /\ \A i \in 1 .. N : w[i] = p[i]
  BY <1>1 DEF Within, Paths
<1> HIDE DEF w
<1>3. SubSeq(w, 1, N) = p
  <2>1. \A i \in 1 .. N : w[i] \in Nat \X Nat
    BY <1>1, <1>2 DEF Paths
  <2>2. SubSeq(w, 1, N) \in Paths /\ Len(SubSeq(w, 1, N)) = N /\ \A i \in 1 .. N : SubSeq(w, 1, N)[i] = w[i]
    BY <1>1, <1>2 DEF Paths
  <2> DEFINE u == SubSeq(w, 1, N)
  <2> HIDE DEF u
  <2>3. u \in Paths /\ Len(u) = Len(p) /\ \A i \in 1 .. Len(p) : u[i] = p[i]
    BY <1>1, <1>2, <2>2 DEF u
  <2>4. u = p
    BY <2>3, SeqEqual DEF Paths
  <2> QED BY <2>4 DEF u
<1>4. Structured!Holder(w, N + 1) = <<p, m>>
  <2>1. (N + 1) - 1 = N
    BY <1>1
  <2> QED BY <1>2, <1>3, <2>1 DEF Structured!Holder
<1>5. ASSUME NEW i \in 1 .. N
      PROVE  Structured!Holder(w, i) = Structured!Holder(p, i)
  <2>1. PICK j \in Nat : j = i - 1 /\ j <= N
    OBVIOUS
  <2> DEFINE u == SubSeq(w, 1, j)
             v == SubSeq(p, 1, j)
  <2>2. u \in Paths /\ Len(u) = j /\ \A l \in 1 .. j : u[l] = w[l]
    <3>1. w \in Seq(Nat \X Nat) /\ j <= Len(w)
      BY <1>1, <1>2, <2>1 DEF Paths
    <3>2. \A l \in 1 .. j : w[l] \in Nat \X Nat
      BY <3>1
    <3> QED BY <2>1, <3>1, <3>2 DEF Paths
  <2>3. v \in Paths /\ Len(v) = j /\ \A l \in 1 .. j : v[l] = p[l]
    BY <1>1, <2>1 DEF Paths
  <2> HIDE DEF u, v
  <2>4. \A l \in 1 .. j : u[l] = v[l]
    BY <1>2, <2>1, <2>2, <2>3
  <2>5. u = v
    BY <2>2, <2>3, <2>4, SeqEqual DEF Paths
  <2> QED BY <1>2, <2>1, <2>5 DEF Structured!Holder, u, v
<1> QED BY <1>1, <1>2, <1>4, <1>5 DEF w

(* The end of a list.                                                      *)
LEMMA AfterTheBody ==
  ASSUME NEW b, NEW n \in Nat, n > Len(StatementsAt(b, <<>>))
  PROVE  Comes(b, <<>>, n) = End
<1>1. <<>> \in Paths
  BY DEF Paths
<1>2. Structured!AtEndOfList(b, << <<>>, n>>)
  BY SameTree DEF Structured!AtEndOfList
<1>3. ~ Structured!IsSilent(b, << <<>>, n>>) /\ Structured!Happening(b, << <<>>, n>>) = End
  BY <1>2, SameTree DEF Structured!IsSilent, Structured!Happening
<1> QED BY <1>1, <1>3, UpcomingGoesOn

(* Past the end of a list of a statement.                                  *)
LEMMA AfterTheList ==
  ASSUME NEW b, NEW p \in Paths, NEW m \in Nat, NEW k \in Nat,
         NEW n \in Nat, n > Len(StatementsAt(b, Within(p, m, k)))
  PROVE  LET kind == StatementsAt(b, p)[m].kind
         IN  /\ kind = "if" => Comes(b, Within(p, m, k), n) = Comes(b, p, m + 1)
             /\ kind = "while" => Comes(b, Within(p, m, k), n) = Point(p, m, 1)
             /\ kind = "for" => Comes(b, Within(p, m, k), n) = Point(p, m, Increment)
<1> DEFINE w == Within(p, m, k)
           place == <<w, n>>
           kind == StatementsAt(b, p)[m].kind
<1>1. w \in Paths /\ w # <<>>
  BY WithinIsPath
<1>2. Structured!AtEndOfList(b, place)
  BY SameTree DEF Structured!AtEndOfList
<1>3. Structured!Outer(place) = <<p, m>>
  BY HolderWithin DEF Structured!Outer
<1>4. Structured!StatementOn(b, <<p, m>>).kind = kind
  BY SameTree DEF Structured!StatementOn
<1> HIDE DEF w, kind
<1>5. CASE kind = "if"
  <2>1. Structured!IsSilent(b, place)
    BY <1>1, <1>2, <1>3, <1>4, <1>5, SameTree DEF Structured!IsSilent
  <2>2. Structured!Onwards(b, place) = <<p, m + 1>>
    BY <1>2, <1>3 DEF Structured!Onwards, Structured!After
  <2> QED BY <1>1, <1>5, <2>1, <2>2, UpcomingGoesOn DEF w, kind, Comes
<1>6. CASE kind \in {"while", "for"}
  <2>1. ~ Structured!IsSilent(b, place)
    BY <1>1, <1>2, <1>3, <1>4, <1>6, SameTree DEF Structured!IsSilent
  <2>2. Structured!Happening(b, place) = Point(p, m, IF kind = "while" THEN 1 ELSE Increment)
    BY <1>1, <1>2, <1>3, <1>4, SameTree DEF Structured!Happening
  <2> QED BY <1>1, <1>6, <2>1, <2>2, UpcomingGoesOn DEF w, kind, Comes
<1> QED BY <1>5, <1>6 DEF w, kind

(* Where a break leads to.                                                 *)
BreakTo(b, path) == Structured!Upcoming(b)[Structured!After(Structured!InnermostLoop(b, path))]

(* A statement of a list.                                                  *)
LEMMA AtTheStatement ==
  ASSUME NEW b, NEW path \in Paths, NEW n \in Nat, Len(StatementsAt(b, path)) \in Nat,
         n <= Len(StatementsAt(b, path))
  PROVE  LET kind == StatementsAt(b, path)[n].kind
         IN  /\ kind \in {"nothing", "declaration", "directive"} =>
                  Comes(b, path, n) = Comes(b, path, n + 1)
             /\ kind = "break" /\ Structured!Loops(b, path) # {} => Comes(b, path, n) = BreakTo(b, path)
             /\ kind \in {"if", "while"} => Comes(b, path, n) = Point(path, n, 1)
             /\ kind \in {"effect", "return", "for"} => Comes(b, path, n) = Point(path, n, 0)
<1> DEFINE place == <<path, n>>
           kind == StatementsAt(b, path)[n].kind
<1>1. ~ Structured!AtEndOfList(b, place)
  BY SameTree DEF Structured!AtEndOfList
<1>2. Structured!StatementOn(b, place).kind = kind
  BY SameTree DEF Structured!StatementOn
<1> HIDE DEF kind
<1>3. CASE kind \in {"nothing", "declaration", "directive"}
  <2>1. Structured!IsSilent(b, place) /\ Structured!Onwards(b, place) = <<path, n + 1>>
    BY <1>1, <1>2, <1>3, SameTree DEF Structured!IsSilent, Structured!Onwards, Structured!After
  <2> QED BY <1>3, <2>1, UpcomingGoesOn DEF kind, Comes
<1>4. CASE kind = "break" /\ Structured!Loops(b, path) # {}
  <2>1. /\ Structured!IsSilent(b, place)
        /\ Structured!Onwards(b, place) = Structured!After(Structured!InnermostLoop(b, path))
    BY <1>1, <1>2, <1>4, SameTree DEF Structured!IsSilent, Structured!Onwards
  <2> QED BY <1>4, <2>1, UpcomingGoesOn DEF kind, Comes, BreakTo
<1>5. CASE kind \in {"if", "while"}
  <2>1. ~ Structured!IsSilent(b, place) /\ Structured!Happening(b, place) = Point(path, n, 1)
    BY <1>1, <1>2, <1>5, SameTree DEF Structured!IsSilent, Structured!Happening
  <2> QED BY <1>5, <2>1, UpcomingGoesOn DEF kind, Comes
<1>6. CASE kind \in {"effect", "return", "for"}
  <2>1. ~ Structured!IsSilent(b, place) /\ Structured!Happening(b, place) = Point(path, n, 0)
    BY <1>1, <1>2, <1>6, SameTree DEF Structured!IsSilent, Structured!Happening
  <2> QED BY <1>6, <2>1, UpcomingGoesOn DEF kind, Comes
<1> QED BY <1>3, <1>4, <1>5, <1>6 DEF kind

(* In the lists of a loop a break leads to what follows the loop, in those *)
(* of another statement where it led before.                               *)
LEMMA BreakFromWithin ==
  ASSUME NEW b, NEW p \in Paths, NEW m \in Nat, NEW k \in Nat
  PROVE  /\ IsLoop(StatementsAt(b, p)[m]) =>
              /\ Structured!Loops(b, Within(p, m, k)) # {}
              /\ BreakTo(b, Within(p, m, k)) = Comes(b, p, m + 1)
         /\ ~ IsLoop(StatementsAt(b, p)[m]) =>
              /\ Structured!Loops(b, Within(p, m, k)) = Structured!Loops(b, p)
              /\ Structured!Loops(b, p) # {} => BreakTo(b, Within(p, m, k)) = BreakTo(b, p)
<1> DEFINE w == Within(p, m, k)
<1>1. PICK N \in Nat : N = Len(p)
  BY DEF Paths
<1>2. /\ w \in Paths
      /\ Len(w) = N + 1
      /\ Structured!Holder(w, N + 1) = <<p, m>>
      /\ \A i \in 1 .. N : Structured!Holder(w, i) = Structured!Holder(p, i)
  BY <1>1, HolderWithin, WithinIsPath
<1> HIDE DEF w
<1>3. IsLoop(StatementsAt(b, p)[m]) <=> N + 1 \in Structured!Loops(b, w)
  BY <1>1, <1>2, SameTree DEF Structured!Loops, Structured!StatementOn
<1>4. \A i \in 1 .. N : i \in Structured!Loops(b, w) <=> i \in Structured!Loops(b, p)
  BY <1>1, <1>2, SameTree DEF Structured!Loops
<1>5. Structured!Loops(b, p) \subseteq 1 .. N /\ Structured!Loops(b, w) \subseteq 1 .. N + 1
  BY <1>1, <1>2, SameTree DEF Structured!Loops
<1>6. ASSUME IsLoop(StatementsAt(b, p)[m])
      PROVE  Structured!Loops(b, w) # {} /\ BreakTo(b, w) = Comes(b, p, m + 1)
  <2>1. N + 1 \in Structured!Loops(b, w)
    BY <1>3, <1>6
  <2>2. PICK l \in Structured!Loops(b, w) :
           /\ \A i \in Structured!Loops(b, w) : i <= l
           /\ Structured!InnermostLoop(b, w) = Structured!Holder(w, l)
    BY <1>2, <2>1, InnermostLoopIs
  <2>3. l = N + 1
    BY <1>5, <2>1, <2>2
  <2> QED BY <1>2, <2>1, <2>2, <2>3 DEF BreakTo, Comes, Structured!After
<1>7. ASSUME ~ IsLoop(StatementsAt(b, p)[m])
      PROVE  /\ Structured!Loops(b, w) = Structured!Loops(b, p)
             /\ Structured!Loops(b, p) # {} => BreakTo(b, w) = BreakTo(b, p)
  <2>1. Structured!Loops(b, w) = Structured!Loops(b, p)
    BY <1>3, <1>4, <1>5, <1>7
  <2>2. ASSUME Structured!Loops(b, p) # {}
        PROVE  BreakTo(b, w) = BreakTo(b, p)
    <3>1. PICK l \in Structured!Loops(b, w) :
             /\ \A i \in Structured!Loops(b, w) : i <= l
             /\ Structured!InnermostLoop(b, w) = Structured!Holder(w, l)
      BY <1>2, <2>1, <2>2, InnermostLoopIs
    <3>2. PICK j \in Structured!Loops(b, p) :
             /\ \A i \in Structured!Loops(b, p) : i <= j
             /\ Structured!InnermostLoop(b, p) = Structured!Holder(p, j)
      BY <2>2, InnermostLoopIs
    <3>3. l = j /\ l \in 1 .. N
      BY <1>5, <2>1, <3>1, <3>2
    <3> QED BY <1>2, <3>1, <3>2, <3>3 DEF BreakTo
  <2> QED BY <2>1, <2>2
<1> QED BY <1>6, <1>7 DEF w

(* Where the k-th condition of an if leads to when it is false.            *)
WhenFalse(b, path, n, k) ==
    IF k < Conditions(StatementsAt(b, path)[n]) THEN Point(path, n, k + 1)
    ELSE IF HasElse(StatementsAt(b, path)[n]) THEN Comes(b, Within(path, n, k + 1), 1)
    ELSE Comes(b, path, n + 1)

(* What may happen after a part of a statement.                            *)
MayFollow(b, path, n, part) ==
    LET kind == StatementsAt(b, path)[n].kind
    IN  CASE kind = "effect" -> {Comes(b, path, n + 1)}
          [] kind = "return" -> {Structured!Returned}
          [] kind = "if"     -> {Comes(b, Within(path, n, part), 1), WhenFalse(b, path, n, part)}
          [] kind = "while"  -> {Comes(b, Within(path, n, 1), 1), Comes(b, path, n + 1)}
          [] kind = "for"    -> IF part = 1 THEN {Comes(b, Within(path, n, 1), 1), Comes(b, path, n + 1)}
                                            ELSE {Point(path, n, 1)}
          [] OTHER           -> {}

(* What may happen after a point.                                          *)
Steps(b, p, q) ==
    \/ p = End /\ q = Structured!Returned
    \/ p[2] # 0 /\ q \in MayFollow(b, p[1], p[2], p[3])

(* Steps are those of the structured program.                              *)
LEMMA StepsAreStructured ==
  ASSUME Steps(body, Upcoming, Upcoming'), UNCHANGED body
  PROVE  Structured!Next
<1>1. CASE Upcoming = End /\ Upcoming' = Structured!Returned
  BY <1>1, SameTree DEF Structured!Next, Structured!Return
<1>2. CASE Upcoming[2] # 0 /\ Upcoming' \in MayFollow(body, Upcoming[1], Upcoming[2], Upcoming[3])
  <2> DEFINE path == Upcoming[1]
             n == Upcoming[2]
             part == Upcoming[3]
             kind == StatementsAt(body, path)[n].kind
  <2>1. Upcoming \notin {Structured!NotStarted, Structured!End, Structured!Returned, Structured!Meaningless}
    <3>1. \A i \in {0, 1, 2, 3} : Upcoming # <<<<>>, 0, i>>
      BY <1>2
    <3> QED
      BY <3>1 DEF Structured!NotStarted, Structured!End, Structured!Returned, Structured!Meaningless, Structured!Point
  <2>2. Structured!Happens(kind) /\ Structured!Current.kind = kind
    BY <2>1, SameTree DEF Structured!Happens, Structured!Current
  <2>3. Structured!Beyond = Comes(body, path, n + 1)
    BY DEF Structured!Beyond, Comes
  <2>4. \A k : Structured!Inside(k) = Comes(body, Within(path, n, k), 1)
    BY SameTree DEF Structured!Inside, Comes
  <2>5. Structured!Conditions(Structured!Current) = Conditions(StatementsAt(body, path)[n])
        /\ (Structured!HasElse(Structured!Current) <=> HasElse(StatementsAt(body, path)[n]))
    BY SameTree DEF Structured!Current
  <2> DEFINE may == MayFollow(body, path, n, part)
  <2>6. /\ kind = "effect" => may = {Comes(body, path, n + 1)}
        /\ kind = "return" => may = {Structured!Returned}
        /\ kind = "if"     => may = {Comes(body, Within(path, n, part), 1), WhenFalse(body, path, n, part)}
        /\ kind = "while"  => may = {Comes(body, Within(path, n, 1), 1), Comes(body, path, n + 1)}
        /\ kind = "for" /\ part = 1 => may = {Comes(body, Within(path, n, 1), 1), Comes(body, path, n + 1)}
        /\ kind = "for" /\ part # 1 => may = {Point(path, n, 1)}
        /\ kind \notin {"effect", "return", "if", "while", "for"} => may = {}
    BY DEF MayFollow
  <2>7. Upcoming' \in may
    BY <1>2
  <2>8. CASE kind = "effect"
    BY <2>2, <2>3, <2>6, <2>7, <2>8 DEF Structured!Next, Structured!Effect
  <2>9. CASE kind = "return"
    BY <2>2, <2>6, <2>7, <2>9 DEF Structured!Next, Structured!Return
  <2>10. CASE kind = "if"
    <3>1. CASE Upcoming' = Comes(body, Within(path, n, part), 1)
      BY <2>2, <2>4, <2>10, <3>1 DEF Structured!Next, Structured!IfCondition
    <3>2. CASE Upcoming' = WhenFalse(body, path, n, part)
      <4>1. Upcoming' = IF part < Structured!Conditions(Structured!Current) THEN Structured!Point(path, n, part + 1)
                        ELSE IF Structured!HasElse(Structured!Current) THEN Structured!Inside(part + 1)
                        ELSE Structured!Beyond
        BY <2>3, <2>4, <2>5, <3>2, SameTree DEF WhenFalse
      <4>2. Structured!Happens("if")
        BY <2>2, <2>10
      <4>3. Structured!IfCondition
        BY <4>1, <4>2, Zenon DEF Structured!IfCondition
      <4> QED BY <4>3 DEF Structured!Next
    <3> QED BY <2>6, <2>7, <2>10, <3>1, <3>2
  <2>11. CASE kind = "while"
    BY <2>2, <2>3, <2>4, <2>6, <2>7, <2>11 DEF Structured!Next, Structured!WhileCondition
  <2>12. CASE kind = "for"
    <3>1. Structured!Happens("for")
      BY <2>2, <2>12
    <3>2. IF part = 1 THEN Upcoming' \in {Structured!Inside(1), Structured!Beyond}
                      ELSE Upcoming' = Structured!Point(path, n, 1)
      BY <2>3, <2>4, <2>6, <2>7, <2>12, SameTree
    <3> QED BY <3>1, <3>2 DEF Structured!Next, Structured!ForLoop
  <2> QED BY <2>6, <2>7, <2>8, <2>9, <2>10, <2>11, <2>12
<1> QED BY <1>1, <1>2 DEF Steps

(***************************************************************************)
(* What blocks mean                                                        *)
(***************************************************************************)

(* m has for every block what happens next where it begins.  What happens  *)
(* next where the instruction i is about to run:                           *)
Event(m, i) == IF i.kind = "jump" THEN m[i.targets[1]] ELSE i.point

(* The instruction i does what the statements say, if e comes after it.    *)
Right(b, m, i, e) ==
    /\ i.kind = "other" => Steps(b, i.point, e)
    /\ i.kind = "return" => Steps(b, i.point, Structured!Returned)
    /\ i.kind = "branch" => \A k \in 1 .. Len(i.targets) : Steps(b, i.point, m[i.targets[k]])
    /\ i.kind = "jump" => Len(i.targets) = 1

(* The instructions of the block do, if e comes after them.                *)
Flows(b, m, block, instructions, e) ==
    /\ m[block] = IF instructions = <<>> THEN e ELSE Event(m, instructions[1])
    /\ \A n \in 1 .. Len(instructions) :
          Right(b, m, instructions[n], IF n < Len(instructions) THEN Event(m, instructions[n + 1]) ELSE e)

IsClosed(instructions) ==
    instructions # <<>> /\ instructions[Len(instructions)].kind \in Terminators

(* An open block is one without an end.                                    *)
LEMMA OpenIs ==
  ASSUME NEW c
  PROVE  IsOpen(c) <=> ~ IsClosed(c.instructions)
BY DEF IsOpen, IsClosed, does_current_block_need_finisher

(* A block goes on with the instruction i.                                 *)
LEMMA FlowsOn ==
  ASSUME NEW b, NEW m, NEW block, NEW s \in Seq(Instructions), NEW i \in Instructions, NEW e,
         Flows(b, m, block, s, Event(m, i)), Right(b, m, i, e)
  PROVE  Flows(b, m, block, Append(s, i), e)
<1> DEFINE t == Append(s, i)
<1>1. PICK N \in Nat : N = Len(s)
  OBVIOUS
<1>2. /\ Len(t) = N + 1
      /\ t # <<>>
      /\ t[N + 1] = i
      /\ \A n \in 1 .. N : t[n] = s[n]
  BY <1>1
<1> HIDE DEF t
<1>3. m[block] = Event(m, t[1])
  <2>1. CASE N = 0
    <3>1. s = <<>>
      BY <1>1, <2>1, EmptySeq
    <3> QED BY <1>2, <2>1, <3>1 DEF Flows
  <2>2. CASE N # 0
    <3>1. s # <<>>
      BY <1>1, <2>2
    <3> QED BY <1>1, <1>2, <2>2, <3>1 DEF Flows
  <2> QED BY <2>1, <2>2
<1>4. ASSUME NEW n \in 1 .. N + 1
      PROVE  Right(b, m, t[n], IF n < N + 1 THEN Event(m, t[n + 1]) ELSE e)
  <2>1. CASE n = N + 1
    BY <1>2, <2>1
  <2>2. CASE n = N
    <3>1. n \in 1 .. Len(s) /\ ~ (n < Len(s)) /\ n < N + 1
      BY <1>1, <2>2
    <3>2. Right(b, m, s[n], Event(m, i))
      BY <3>1 DEF Flows
    <3> QED BY <1>1, <1>2, <2>2, <3>1, <3>2
  <2>3. CASE n < N
    <3>1. n \in 1 .. Len(s) /\ n < Len(s) /\ n + 1 \in 1 .. N /\ n < N + 1
      BY <1>1, <2>3
    <3>2. Right(b, m, s[n], Event(m, s[n + 1]))
      BY <3>1 DEF Flows
    <3> QED BY <1>1, <1>2, <3>1, <3>2
  <2> QED BY <2>1, <2>2, <2>3
<1>5. Flows(b, m, block, t, e)
  BY <1>2, <1>3, <1>4 DEF Flows
<1> QED BY <1>5 DEF t

(* Nothing comes after a terminator.                                       *)
LEMMA FlowsToTheEnd ==
  ASSUME NEW b, NEW m, NEW block, NEW s \in Seq(Instructions), IsClosed(s), NEW e, NEW e2,
         Flows(b, m, block, s, e)
  PROVE  Flows(b, m, block, s, e2)
<1>1. PICK N \in Nat : N = Len(s)
  OBVIOUS
<1>2. N # 0 /\ s # <<>> /\ s[N].kind \in Terminators
  BY <1>1, EmptySeq DEF IsClosed
<1>3. ASSUME NEW n \in 1 .. N
      PROVE  Right(b, m, s[n], IF n < N THEN Event(m, s[n + 1]) ELSE e2)
  <2>1. Right(b, m, s[n], IF n < N THEN Event(m, s[n + 1]) ELSE e)
    BY <1>1 DEF Flows
  <2>2. CASE n = N
    BY <1>2, <2>1, <2>2 DEF Right, Terminators
  <2> QED BY <2>1, <2>2
<1> QED BY <1>1, <1>2, <1>3 DEF Flows

(* It matters only what the blocks mean that are led to.                   *)
Agree(m, m2, blocks) == \A block \in blocks : m2[block] = m[block]

(* What a block does is not changed by what others come to mean.           *)
LEMMA FlowsAlike ==
  ASSUME NEW b, NEW m, NEW m2, NEW block, NEW s \in Seq(Instructions), NEW e, NEW blocks,
         Agree(m, m2, blocks), block \in blocks, LeadTo(s, blocks),
         Flows(b, m, block, s, e)
  PROVE  Flows(b, m2, block, s, e)
<1>1. PICK N \in Nat : N = Len(s)
  OBVIOUS
<1>2. \A n \in 1 .. N : \A k \in 1 .. Len(s[n].targets) : m2[s[n].targets[k]] = m[s[n].targets[k]]
  BY <1>1 DEF LeadTo, Agree
<1>3. ASSUME NEW n \in 1 .. N
      PROVE  Event(m2, s[n]) = Event(m, s[n])
  <2>1. CASE s[n].kind = "jump"
    <3>1. Len(s[n].targets) = 1
      BY <1>1, <2>1 DEF Flows, Right
    <3>2. 1 \in 1 .. Len(s[n].targets)
      BY <3>1
    <3> QED BY <1>2, <3>2 DEF Event
  <2>2. CASE s[n].kind # "jump"
    BY <2>2 DEF Event
  <2> QED BY <2>1, <2>2
<1>4. ASSUME NEW n \in 1 .. N, NEW x, Right(b, m, s[n], x)
      PROVE  Right(b, m2, s[n], x)
  BY <1>2, <1>4 DEF Right
<1>5. ASSUME NEW n \in 1 .. N
      PROVE  Right(b, m2, s[n], IF n < N THEN Event(m2, s[n + 1]) ELSE e)
  <2>1. Right(b, m, s[n], IF n < N THEN Event(m, s[n + 1]) ELSE e)
    BY <1>1 DEF Flows
  <2>2. CASE n < N
    <3>1. n + 1 \in 1 .. N
      BY <2>2
    <3>2. Event(m2, s[n + 1]) = Event(m, s[n + 1])
      BY <1>3, <3>1
    <3>3. Right(b, m, s[n], Event(m, s[n + 1]))
      BY <2>1, <2>2
    <3>4. Right(b, m2, s[n], Event(m, s[n + 1]))
      BY <1>4, <3>3
    <3> QED BY <2>2, <3>2, <3>4
  <2>3. CASE ~ (n < N)
    BY <1>4, <2>1, <2>3
  <2> QED BY <2>2, <2>3
<1>6. m2[block] = IF s = <<>> THEN e ELSE Event(m2, s[1])
  <2>1. m2[block] = IF s = <<>> THEN e ELSE Event(m, s[1])
    BY DEF Flows, Agree
  <2>2. CASE s # <<>>
    <3>1. 1 \in 1 .. N
      BY <1>1, <2>2, EmptySeq
    <3> QED BY <1>3, <2>1, <2>2, <3>1
  <2> QED BY <2>1, <2>2
<1> QED BY <1>1, <1>5, <1>6 DEF Flows

(* Jumps lead ahead, or to a block that was emitted and does not begin     *)
(* with a jump: a row of them ends.                                        *)
Behind(c, n) == {c.blocks[k].block : k \in 1 .. n}

Anchored(c, block) ==
    \E n \in 1 .. Len(c.blocks) :
        /\ c.blocks[n].block = block
        /\ c.blocks[n].instructions # <<>>
        /\ c.blocks[n].instructions[1].kind # "jump"

JumpsAhead(c, instructions, behind) ==
    \A n \in 1 .. Len(instructions) :
        instructions[n].kind = "jump" =>
            instructions[n].targets[1] \notin behind \/ Anchored(c, instructions[n].targets[1])

Distinct(c) ==
    \A i \in 1 .. Len(c.blocks) : \A j \in 1 .. Len(c.blocks) :
        c.blocks[i].block = c.blocks[j].block => i = j

(* The blocks that were emitted do what the statements say.                *)
BlocksMean(b, m, c) ==
    /\ \A n \in 1 .. Len(c.blocks) :
          /\ \E e : Flows(b, m, c.blocks[n].block, c.blocks[n].instructions, e)
          /\ JumpsAhead(c, c.blocks[n].instructions, Behind(c, n))
    /\ Distinct(c)

(* So does the current one, if e comes next; the pending ones are others.  *)
Fine(b, m, c, pending, e) ==
    /\ c \in Contexts
    /\ BlocksMean(b, m, c)
    /\ Flows(b, m, c.current_block, c.instructions, e)
    /\ JumpsAhead(c, c.instructions, EmittedBy(c) \cup {c.current_block})
    /\ c.current_block \notin EmittedBy(c)
    /\ \A block \in pending : block \notin EmittedBy(c) /\ block # c.current_block
    /\ \A block \in EmittedBy(c) \cup {c.current_block} \cup pending : block \in 1 .. c.block_count
    /\ IF Len(c.blocks) = 0 THEN c.current_block = 1 ELSE c.blocks[1].block = 1

(* What emitting an instruction changes.                                   *)
LEMMA EmitIs ==
  ASSUME NEW c \in Contexts, NEW i \in Instructions
  PROVE  LET d == Emit(c, i)
         IN  /\ d \in Contexts
             /\ d.instructions = Append(c.instructions, i)
             /\ d.blocks = c.blocks
             /\ d.current_block = c.current_block
             /\ d.block_count = c.block_count
             /\ d.break_end_block = c.break_end_block
             /\ d.next_child_scope_index = c.next_child_scope_index
             /\ d.assertion_failed = c.assertion_failed
             /\ IsOpen(d) <=> i.kind \notin Terminators
             /\ d.instructions # <<>>
<1> DEFINE d == Emit(c, i)
           s == Append(c.instructions, i)
<1>1. c.instructions \in Seq(Instructions)
  BY DEF Contexts
<1>2. s \in Seq(Instructions) /\ s # <<>> /\ s[Len(s)] = i
  BY <1>1
<1> HIDE DEF s
<1>3. d = [c EXCEPT !.instructions = s]
  BY DEF Emit, s
<1>4. /\ d \in Contexts
      /\ d.instructions = s
      /\ d.blocks = c.blocks
      /\ d.current_block = c.current_block
      /\ d.block_count = c.block_count
      /\ d.break_end_block = c.break_end_block
      /\ d.next_child_scope_index = c.next_child_scope_index
      /\ d.assertion_failed = c.assertion_failed
  BY <1>2, <1>3 DEF Contexts
<1> HIDE DEF d
<1>5. IsOpen(d) <=> i.kind \notin Terminators
  BY <1>2, <1>4, OpenIs DEF IsClosed
<1> QED BY <1>2, <1>4, <1>5 DEF d, s

(* What is fine stays so where the blocks are the same.                    *)
LEMMA SameBlocks ==
  ASSUME NEW c, NEW d, d.blocks = c.blocks
  PROVE  /\ EmittedBy(d) = EmittedBy(c)
         /\ \A n : Behind(d, n) = Behind(c, n)
         /\ \A block : Anchored(d, block) <=> Anchored(c, block)
         /\ \A s, behind : JumpsAhead(d, s, behind) <=> JumpsAhead(c, s, behind)
         /\ \A b, m : BlocksMean(b, m, d) <=> BlocksMean(b, m, c)
<1>1. EmittedBy(d) = EmittedBy(c) /\ \A n : Behind(d, n) = Behind(c, n)
  BY DEF EmittedBy, Behind
<1>2. \A block : Anchored(d, block) <=> Anchored(c, block)
  BY DEF Anchored
<1>3. \A s, behind : JumpsAhead(d, s, behind) <=> JumpsAhead(c, s, behind)
  BY <1>2 DEF JumpsAhead
<1>4. Distinct(d) <=> Distinct(c)
  BY DEF Distinct
<1> QED BY <1>1, <1>2, <1>3, <1>4 DEF BlocksMean

(* The instruction i, which does what the statements say, is emitted.      *)
LEMMA FineEmit ==
  ASSUME NEW b, NEW m, NEW c, NEW pending, NEW e, Fine(b, m, c, pending, e),
         NEW i \in Instructions, IsOpen(c) => e = Event(m, i),
         NEW e2, Right(b, m, i, e2),
         i.kind = "jump" => i.targets[1] \in pending \/ Anchored(c, i.targets[1])
  PROVE  Fine(b, m, Emit(c, i), pending, e2)
<1> DEFINE d == Emit(c, i)
<1>1. c \in Contexts /\ c.instructions \in Seq(Instructions)
  BY DEF Fine, Contexts
<1>2. /\ d \in Contexts
      /\ d.instructions = Append(c.instructions, i)
      /\ d.blocks = c.blocks
      /\ d.current_block = c.current_block
      /\ d.block_count = c.block_count
  BY <1>1, EmitIs
<1> HIDE DEF d
<1>3. Flows(b, m, c.current_block, c.instructions, Event(m, i))
  <2>1. Flows(b, m, c.current_block, c.instructions, e)
    BY DEF Fine
  <2>2. CASE IsOpen(c)
    BY <2>1, <2>2
  <2>3. CASE ~ IsOpen(c)
    BY <1>1, <2>1, <2>3, OpenIs, FlowsToTheEnd
  <2> QED BY <2>2, <2>3
<1>4. Flows(b, m, d.current_block, d.instructions, e2)
  BY <1>1, <1>2, <1>3, FlowsOn
<1>5. EmittedBy(d) = EmittedBy(c) /\ BlocksMean(b, m, d)
  BY <1>2, SameBlocks DEF Fine
<1>6. JumpsAhead(d, d.instructions, EmittedBy(d) \cup {d.current_block})
  <2> DEFINE behind == EmittedBy(c) \cup {c.current_block}
             s == c.instructions
             t == Append(s, i)
  <2>1. JumpsAhead(c, s, behind)
    BY DEF Fine
  <2>2. i.kind = "jump" => i.targets[1] \notin behind \/ Anchored(c, i.targets[1])
    BY DEF Fine
  <2>3. Len(t) = Len(s) + 1 /\ t[Len(s) + 1] = i /\ (\A n \in 1 .. Len(s) : t[n] = s[n]) /\ Len(s) \in Nat
    BY <1>1
  <2> HIDE DEF behind, s, t
  <2>4. ASSUME NEW n \in 1 .. Len(t), t[n].kind = "jump"
        PROVE  t[n].targets[1] \notin behind \/ Anchored(c, t[n].targets[1])
    <3>1. CASE n = Len(s) + 1
      BY <2>2, <2>3, <2>4, <3>1
    <3>2. CASE n # Len(s) + 1
      <4>1. n \in 1 .. Len(s) /\ t[n] = s[n]
        BY <2>3, <3>2
      <4> QED BY <2>1, <2>4, <4>1 DEF JumpsAhead
    <3> QED BY <3>1, <3>2
  <2>5. JumpsAhead(c, t, behind)
    BY <2>4 DEF JumpsAhead
  <2> QED BY <1>2, <1>5, <2>5, SameBlocks DEF behind, s, t
<1>7. Fine(b, m, d, pending, e2)
  BY <1>2, <1>4, <1>5, <1>6 DEF Fine
<1> QED BY <1>7 DEF d

(* A jump.                                                                 *)
LEMMA JumpIs ==
  ASSUME NEW block \in Nat
  PROVE  /\ Jump(block) \in Instructions
         /\ Jump(block).kind = "jump"
         /\ Jump(block).targets = <<block>>
<1>0. <<>> \in Paths
  BY DEF Paths
<1>1. End \in Points
  BY <1>0 DEF End, Point, Points
<1> QED BY <1>1 DEF Jump, Instruction, Instructions

(* What comes next does not matter for a block that has an end.            *)
LEMMA FineAtTheEnd ==
  ASSUME NEW b, NEW m, NEW c, NEW pending, NEW e, Fine(b, m, c, pending, e), ~ IsOpen(c), NEW e2
  PROVE  Fine(b, m, c, pending, e2)
<1>1. c.instructions \in Seq(Instructions)
  BY DEF Fine, Contexts
<1>2. Flows(b, m, c.current_block, c.instructions, e2)
  BY <1>1, OpenIs, FlowsToTheEnd DEF Fine
<1> QED BY <1>2 DEF Fine

(* An open block ends with a jump to where the same comes next.            *)
LEMMA FineFinish ==
  ASSUME NEW b, NEW m, NEW c, NEW pending, NEW e, Fine(b, m, c, pending, e),
         NEW block \in Nat, IsOpen(c) => e = m[block], block \in pending \/ Anchored(c, block), NEW e2
  PROVE  LET d == FinishWithJump(c, block)
         IN  /\ Fine(b, m, d, pending, e2)
             /\ ~ IsOpen(d)
             /\ d.instructions # <<>>
             /\ d.blocks = c.blocks
             /\ d.current_block = c.current_block
             /\ d.block_count = c.block_count
             /\ d.break_end_block = c.break_end_block
             /\ d.next_child_scope_index = c.next_child_scope_index
             /\ d.assertion_failed = c.assertion_failed
<1>0. c \in Contexts
  BY DEF Fine
<1>1. CASE IsOpen(c)
  <2> DEFINE i == Jump(block)
  <2>1. i \in Instructions /\ i.kind = "jump" /\ i.targets = <<block>>
    BY JumpIs
  <2>2. FinishWithJump(c, block) = Emit(c, i)
    BY <1>1 DEF FinishWithJump, IsOpen
  <2> HIDE DEF i
  <2>3. i.targets[1] = block /\ Event(m, i) = m[block] /\ Len(i.targets) = 1
    BY <2>1 DEF Event
  <2>4. Right(b, m, i, e2)
    BY <2>1, <2>3 DEF Right
  <2>5. Fine(b, m, Emit(c, i), pending, e2)
    BY <1>1, <2>1, <2>3, <2>4, FineEmit
  <2> QED BY <1>0, <2>1, <2>2, <2>5, EmitIs DEF Terminators
<1>2. CASE ~ IsOpen(c)
  <2>1. FinishWithJump(c, block) = c
    BY <1>2 DEF FinishWithJump, IsOpen
  <2>2. c.instructions # <<>>
    BY <1>2, OpenIs DEF IsClosed
  <2> QED BY <1>2, <2>1, <2>2, FineAtTheEnd
<1> QED BY <1>1, <1>2

(* The pending blocks without the one that begins.                         *)
Rest(pending2, pending, block) == \A x \in pending2 : x \in pending /\ x # block

(* The current block is emitted and a pending one begins.                  *)
LEMMA FineStart ==
  ASSUME NEW b, NEW m, NEW c, NEW pending, NEW e, Fine(b, m, c, pending, e),
         NEW block \in pending, NEW pending2, Rest(pending2, pending, block)
  PROVE  LET d == StartBlock(c, block)
         IN  /\ Fine(b, m, d, pending2, m[block])
             /\ IsOpen(d)
             /\ d.instructions = <<>>
             /\ d.current_block = block
             /\ d.block_count = c.block_count
             /\ d.break_end_block = c.break_end_block
             /\ d.next_child_scope_index = c.next_child_scope_index
             /\ d.assertion_failed = c.assertion_failed
             /\ \A x : Anchored(c, x) => Anchored(d, x)
             /\ c.instructions # <<>> /\ c.instructions[1].kind # "jump" => Anchored(d, c.current_block)
<1> DEFINE d == StartBlock(c, block)
           blocks == Finished(c)
<1>1. c \in Contexts
  BY DEF Fine
<1>2. PICK N \in Nat : N = Len(c.blocks)
  BY <1>1, FinishedBlocks
<1>3. /\ blocks \in Seq(Entries)
      /\ Len(blocks) = N + 1
      /\ \A n \in 1 .. N : blocks[n] = c.blocks[n]
      /\ blocks[N + 1] = [block |-> c.current_block, instructions |-> c.instructions]
  BY <1>1, <1>2, FinishedBlocks
<1> HIDE DEF blocks
<1>4. /\ block \in 1 .. c.block_count
      /\ block \notin EmittedBy(c)
      /\ block # c.current_block
      /\ block \in Nat
  BY <1>1 DEF Fine, Contexts
<1>5. /\ d \in Contexts
      /\ d.instructions = <<>>
      /\ d.blocks = blocks
      /\ d.current_block = block
      /\ d.block_count = c.block_count
      /\ d.break_end_block = c.break_end_block
      /\ d.next_child_scope_index = c.next_child_scope_index
      /\ d.assertion_failed = c.assertion_failed
  <2> DEFINE none == <<>>
  <2>1. d = [c EXCEPT !.blocks = blocks, !.current_block = block, !.instructions = none]
    BY DEF StartBlock, blocks
  <2>2. none \in Seq(Instructions)
    OBVIOUS
  <2> HIDE DEF none, d
  <2>3. /\ d \in Contexts
        /\ d.instructions = none
        /\ d.blocks = blocks
        /\ d.current_block = block
        /\ d.block_count = c.block_count
    BY <1>1, <1>3, <1>4, <2>1, <2>2 DEF Contexts
  <2>4. /\ d.break_end_block = c.break_end_block
        /\ d.next_child_scope_index = c.next_child_scope_index
        /\ d.assertion_failed = c.assertion_failed
    BY <1>1, <2>1 DEF Contexts
  <2> QED BY <2>3, <2>4 DEF none
<1> HIDE DEF d
<1>6. blocks[N + 1].block = c.current_block /\ blocks[N + 1].instructions = c.instructions
  BY <1>3
<1>7. /\ EmittedBy(d) = EmittedBy(c) \cup {c.current_block}
      /\ \A n \in 1 .. N : Behind(d, n) = Behind(c, n)
      /\ Behind(d, N + 1) = EmittedBy(c) \cup {c.current_block}
  <2>1. \A n \in 1 .. N : \A k \in 1 .. n : blocks[k] = c.blocks[k]
    BY <1>3
  <2>2. Behind(d, N + 1) = EmittedBy(c) \cup {c.current_block}
    <3>1. \A k \in 1 .. N + 1 : k \in 1 .. N \/ k = N + 1
      BY <1>2
    <3>2. (\A k \in 1 .. N : k \in 1 .. N + 1) /\ N + 1 \in 1 .. N + 1
      BY <1>2
    <3> QED BY <1>2, <1>3, <1>5, <1>6, <3>1, <3>2 DEF Behind, EmittedBy
  <2>3. EmittedBy(d) = Behind(d, N + 1)
    BY <1>3, <1>5 DEF EmittedBy, Behind
  <2>4. ASSUME NEW n \in 1 .. N
        PROVE  Behind(d, n) = Behind(c, n)
    BY <1>5, <2>1 DEF Behind
  <2> QED BY <2>2, <2>3, <2>4
<1>8. ASSUME NEW x, Anchored(c, x)
      PROVE  Anchored(d, x)
  <2>1. PICK n \in 1 .. N : /\ c.blocks[n].block = x
                            /\ c.blocks[n].instructions # <<>>
                            /\ c.blocks[n].instructions[1].kind # "jump"
    BY <1>2, <1>8 DEF Anchored
  <2>2. n \in 1 .. N + 1 /\ blocks[n] = c.blocks[n]
    BY <1>3, <2>1
  <2> QED BY <1>3, <1>5, <2>1, <2>2 DEF Anchored
<1>9. ASSUME c.instructions # <<>>, c.instructions[1].kind # "jump"
      PROVE  Anchored(d, c.current_block)
  <2>1. N + 1 \in 1 .. N + 1
    BY <1>2
  <2> QED BY <1>3, <1>5, <1>6, <1>9, <2>1 DEF Anchored
<1>10. \A s, behind : JumpsAhead(c, s, behind) => JumpsAhead(d, s, behind)
  BY <1>8 DEF JumpsAhead
<1>11. ASSUME NEW n \in 1 .. N + 1
       PROVE  /\ \E x : Flows(b, m, blocks[n].block, blocks[n].instructions, x)
              /\ JumpsAhead(d, blocks[n].instructions, Behind(d, n))
  <2>1. CASE n = N + 1
    <3>1. Flows(b, m, c.current_block, c.instructions, e)
      BY DEF Fine
    <3>2. JumpsAhead(d, c.instructions, EmittedBy(c) \cup {c.current_block})
      BY <1>10 DEF Fine
    <3> QED BY <1>6, <1>7, <2>1, <3>1, <3>2
  <2>2. CASE n # N + 1
    <3>1. n \in 1 .. N /\ n \in 1 .. Len(c.blocks)
      BY <1>2, <2>2
    <3>2. /\ \E x : Flows(b, m, c.blocks[n].block, c.blocks[n].instructions, x)
          /\ JumpsAhead(c, c.blocks[n].instructions, Behind(c, n))
      BY <3>1 DEF Fine, BlocksMean
    <3> QED BY <1>3, <1>7, <1>10, <3>1, <3>2
  <2> QED BY <2>1, <2>2
<1>12. Distinct(d)
  <2>1. Distinct(c) /\ c.current_block \notin EmittedBy(c)
    BY DEF Fine, BlocksMean
  <2>2. \A i \in 1 .. N : blocks[i].block \in EmittedBy(c)
    BY <1>2, <1>3 DEF EmittedBy
  <2>3. ASSUME NEW i \in 1 .. N + 1, NEW j \in 1 .. N + 1, blocks[i].block = blocks[j].block
        PROVE  i = j
    <3>1. CASE i \in 1 .. N /\ j \in 1 .. N
      BY <1>2, <1>3, <2>1, <2>3, <3>1 DEF Distinct
    <3>2. CASE i = N + 1 /\ j = N + 1
      BY <3>2
    <3>3. CASE i = N + 1 /\ j \in 1 .. N
      BY <1>6, <2>1, <2>2, <2>3, <3>3
    <3>4. CASE j = N + 1 /\ i \in 1 .. N
      BY <1>6, <2>1, <2>2, <2>3, <3>4
    <3> QED BY <1>2, <3>1, <3>2, <3>3, <3>4
  <2> QED BY <1>3, <1>5, <2>3 DEF Distinct
<1>13. BlocksMean(b, m, d)
  BY <1>3, <1>5, <1>11, <1>12 DEF BlocksMean
<1>14. Flows(b, m, d.current_block, d.instructions, m[block])
  <2>1. Len(<<>>) = 0
    OBVIOUS
  <2> QED BY <1>5, <2>1 DEF Flows
<1>15. JumpsAhead(d, d.instructions, EmittedBy(d) \cup {d.current_block})
  <2>1. Len(<<>>) = 0
    OBVIOUS
  <2> QED BY <1>5, <2>1 DEF JumpsAhead
<1>16. d.current_block \notin EmittedBy(d)
  BY <1>4, <1>5, <1>7
<1>17. \A x \in pending2 : x \notin EmittedBy(d) /\ x # d.current_block
  BY <1>5, <1>7 DEF Fine, Rest
<1>18. \A x \in EmittedBy(d) \cup {d.current_block} \cup pending2 : x \in 1 .. d.block_count
  BY <1>4, <1>5, <1>7 DEF Fine, Rest
<1>19. IF Len(d.blocks) = 0 THEN d.current_block = 1 ELSE d.blocks[1].block = 1
  <2>1. IF N = 0 THEN c.current_block = 1 ELSE c.blocks[1].block = 1
    BY <1>2 DEF Fine
  <2>4. Len(d.blocks) # 0
    BY <1>2, <1>3, <1>5
  <2>2. CASE N = 0
    <3>1. d.blocks[1].block = c.current_block
      BY <1>5, <1>6, <2>2
    <3> QED BY <2>1, <2>2, <2>4, <3>1
  <2>3. CASE N # 0
    <3>1. 1 \in 1 .. N
      BY <1>2, <2>3
    <3>2. d.blocks[1] = c.blocks[1]
      BY <1>3, <1>5, <3>1
    <3> QED BY <2>1, <2>3, <2>4, <3>2
  <2> QED BY <2>2, <2>3
<1>20. Fine(b, m, d, pending2, m[block])
  BY <1>5, <1>13, <1>14, <1>15, <1>16, <1>17, <1>18, <1>19 DEF Fine
<1>21. IsOpen(d)
  BY <1>5 DEF IsOpen, does_current_block_need_finisher
<1> QED BY <1>5, <1>8, <1>9, <1>20, <1>21 DEF d

(* A block with an end is left for a pending one.                          *)
LEMMA ChangeIs ==
  ASSUME NEW c \in Contexts, ~ IsOpen(c), NEW block
  PROVE  change_block(c, block) = StartBlock(c, block)
<1> DEFINE open == does_current_block_need_finisher(c)
<1>1. open \in BOOLEAN
  BY DEF does_current_block_need_finisher
<1>2. (~ open) \in BOOLEAN /\ ~ open
  BY <1>1 DEF IsOpen
<1> HIDE DEF open
<1>3. Assert(~ open, c) = c
  BY <1>2, AssertThatHolds
<1> QED BY <1>3 DEF change_block, open

(* Blocks are allocated, and the other counters change.                    *)
LEMMA FineCounters ==
  ASSUME NEW b, NEW m, NEW c, NEW pending, NEW e, Fine(b, m, c, pending, e),
         NEW d \in Contexts, d.blocks = c.blocks, d.instructions = c.instructions,
         d.current_block = c.current_block, c.block_count <= d.block_count,
         NEW pending2, \A x \in pending2 : x \in pending \/ x \in c.block_count + 1 .. d.block_count
  PROVE  /\ Fine(b, m, d, pending2, e)
         /\ IsOpen(d) <=> IsOpen(c)
<1>1. c.block_count \in Nat /\ d.block_count \in Nat
  BY DEF Fine, Contexts
<1>2. EmittedBy(d) = EmittedBy(c) /\ BlocksMean(b, m, d)
  BY SameBlocks DEF Fine
<1>3. JumpsAhead(d, d.instructions, EmittedBy(d) \cup {d.current_block})
  BY <1>2, SameBlocks DEF Fine
<1>4. \A x \in EmittedBy(c) \cup {c.current_block} \cup pending : x \in 1 .. c.block_count
  BY DEF Fine
<1>5. ASSUME NEW x \in pending2
      PROVE  x \notin EmittedBy(c) /\ x # c.current_block /\ x \in 1 .. d.block_count
  <2>1. CASE x \in pending
    BY <1>1, <1>4, <2>1 DEF Fine
  <2>2. CASE x \in c.block_count + 1 .. d.block_count
    BY <1>1, <1>4, <2>2
  <2> QED BY <2>1, <2>2
<1>6. \A x \in EmittedBy(c) \cup {c.current_block} : x \in 1 .. d.block_count
  BY <1>1, <1>4
<1>7. Fine(b, m, d, pending2, e)
  BY <1>2, <1>3, <1>5, <1>6 DEF Fine
<1> QED BY <1>7 DEF IsOpen, does_current_block_need_finisher

(* What the blocks mean that were not allocated does not matter.           *)
LEMMA FineMeaning ==
  ASSUME NEW b, NEW m, NEW c, NEW pending, NEW e, Fine(b, m, c, pending, e),
         TargetsKnown(c, pending), NEW m2, Agree(m, m2, 1 .. c.block_count)
  PROVE  Fine(b, m2, c, pending, e)
<1> DEFINE known == 1 .. c.block_count
<1>1. c \in Contexts /\ c.instructions \in Seq(Instructions)
  BY DEF Fine, Contexts
<1>2. \A n \in 1 .. Len(c.blocks) : c.blocks[n].instructions \in Seq(Instructions)
  <2>1. \A n \in 1 .. Len(c.blocks) : c.blocks[n] \in Entries
    BY <1>1 DEF Contexts
  <2> QED BY <2>1 DEF Entries
<1>3. \A x \in Known(c, pending) : x \in known
  BY DEF Known, Fine
<1> HIDE DEF known
<1>4. LeadTo(c.instructions, known)
  BY <1>3 DEF TargetsKnown, LeadTo
<1>5. \A n \in 1 .. Len(c.blocks) : LeadTo(c.blocks[n].instructions, known)
  BY <1>3 DEF TargetsKnown, LeadTo
<1>6. Flows(b, m2, c.current_block, c.instructions, e)
  <2>1. c.current_block \in known
    BY <1>3 DEF Known
  <2>2. Flows(b, m, c.current_block, c.instructions, e) /\ Agree(m, m2, known)
    BY DEF Fine, known
  <2> QED BY <1>1, <1>4, <2>1, <2>2, FlowsAlike
<1>7. ASSUME NEW n \in 1 .. Len(c.blocks)
      PROVE  \E x : Flows(b, m2, c.blocks[n].block, c.blocks[n].instructions, x)
  <2>1. PICK x : Flows(b, m, c.blocks[n].block, c.blocks[n].instructions, x)
    BY DEF Fine, BlocksMean
  <2>2. c.blocks[n].block \in known
    BY <1>3 DEF Known, EmittedBy
  <2>3. Agree(m, m2, known)
    BY DEF known
  <2> DEFINE block == c.blocks[n].block
             s == c.blocks[n].instructions
  <2>4. s \in Seq(Instructions) /\ LeadTo(s, known)
    BY <1>2, <1>5
  <2> HIDE DEF block, s
  <2>5. Flows(b, m2, block, s, x)
    BY <2>1, <2>2, <2>3, <2>4, FlowsAlike DEF block, s
  <2> QED BY <2>5 DEF block, s
<1>8. BlocksMean(b, m2, c)
  BY <1>7 DEF Fine, BlocksMean
<1> QED BY <1>6, <1>8 DEF Fine

(***************************************************************************)
(* What the calls of the generator know of the meaning of the blocks       *)
(***************************************************************************)

(* A break from the list at the path may lead to the block.                *)
BreaksTo(b, m, block, path) ==
    block # 0 => Structured!Loops(b, path) # {} /\ m[block] = BreakTo(b, path)

CallMeans(b, m, c, call) ==
    call.within > 0 =>
        /\ m[call.end_block] = Comes(b, call.path, call.n + 1)
        /\ StatementOf(b, call).kind = "if" /\ call.within <= Conditions(StatementOf(b, call)) =>
             /\ m[call.next_block] = WhenFalse(b, call.path, call.n, call.within)
             /\ call.next_block = call.end_block =>
                  call.within = Conditions(StatementOf(b, call)) /\ ~ HasElse(StatementOf(b, call))
        /\ IsLoop(StatementOf(b, call)) =>
             /\ m[call.condition_block] = Point(call.path, call.n, 1)
             /\ Anchored(c, call.condition_block)
             /\ BreaksTo(b, m, call.old_break_end_block, call.path)

(* No block is pending for two calls.                                      *)
Apart(b, stk) ==
    \A i \in 1 .. Len(stk) : \A j \in 1 .. Len(stk) :
        i # j => \A x \in PendingOf(b, stk[i]) : x \notin PendingOf(b, stk[j])

(* What comes next for the call: its n-th statement, or the end of the     *)
(* list of it that was generated.                                          *)
ListWithin(b, call) == StatementsAt(b, Within(call.path, call.n, call.within))

ComesNow(b, call) ==
    IF call.within = 0 THEN Comes(b, call.path, call.n)
    ELSE Comes(b, Within(call.path, call.n, call.within), Len(ListWithin(b, call)) + 1)

Means(b, m, stk, c) ==
    /\ m[1] = Comes(b, <<>>, 1)
    /\ Fine(b, m, c, Pending(b, stk), ComesNow(b, TopOf(stk)))
    /\ \A j \in 1 .. Len(stk) : CallMeans(b, m, c, stk[j])
    /\ Apart(b, stk)
    /\ ~ LoopCall(b, TopOf(stk)) => BreaksTo(b, m, c.break_end_block, TopOf(stk).path)

(* Blocks are emitted and allocated: d comes after c.                      *)
Grows(c, d) == \A block : Anchored(c, block) => Anchored(d, block)

(* What a call knows stays true of a larger meaning.                       *)
LEMMA CallMeansStill ==
  ASSUME NEW b, NEW m, NEW m2, NEW c, NEW d, NEW count \in Nat, Agree(m, m2, 1 .. count),
         \A block : Anchored(c, block) => block \in 1 .. count /\ Anchored(d, block),
         NEW call \in Calls, CallMeans(b, m, c, call), BoundedCall(call, count), BranchesLead(b, call)
  PROVE  CallMeans(b, m2, d, call)
<1>1. SUFFICES ASSUME call.within > 0
               PROVE  CallMeans(b, m2, d, call)
  BY DEF CallMeans
<1>2. call.within # 0
  BY <1>1
<1>3. /\ call.end_block \in 1 .. count
      /\ StatementOf(b, call).kind = "if" /\ call.within <= Conditions(StatementOf(b, call)) =>
           call.next_block \in 1 .. count
      /\ call.old_break_end_block # 0 => call.old_break_end_block \in 1 .. count
  BY <1>2 DEF BranchesLead, PendingOf, BoundedCall, Calls
<1>4. IsLoop(StatementOf(b, call)) => call.condition_block \in 1 .. count /\ Anchored(d, call.condition_block)
  BY <1>1 DEF CallMeans
<1>5. m2[call.end_block] = Comes(b, call.path, call.n + 1)
  BY <1>1, <1>3 DEF CallMeans, Agree
<1>6. StatementOf(b, call).kind = "if" /\ call.within <= Conditions(StatementOf(b, call)) =>
        m2[call.next_block] = WhenFalse(b, call.path, call.n, call.within)
  BY <1>1, <1>3 DEF CallMeans, Agree
<1>7. IsLoop(StatementOf(b, call)) =>
        /\ m2[call.condition_block] = Point(call.path, call.n, 1)
        /\ BreaksTo(b, m2, call.old_break_end_block, call.path)
  BY <1>1, <1>3, <1>4 DEF CallMeans, Agree, BreaksTo
<1>8. StatementOf(b, call).kind = "if" /\ call.within <= Conditions(StatementOf(b, call)) =>
        (call.next_block = call.end_block =>
           call.within = Conditions(StatementOf(b, call)) /\ ~ HasElse(StatementOf(b, call)))
  BY <1>1 DEF CallMeans
<1> QED BY <1>4, <1>5, <1>6, <1>7, <1>8 DEF CallMeans

(* The first m calls of a walk, when blocks were allocated since.          *)
LEMMA CallersMeanStill ==
  ASSUME NEW b, NEW stk, NEW scopes, NEW c, GeneratorInv(b, scopes, stk, c),
         NEW m, Means(b, m, stk, c), NEW m2, Agree(m, m2, 1 .. c.block_count),
         NEW d, Grows(c, d)
  PROVE  /\ \A j \in 1 .. Len(stk) : CallMeans(b, m2, d, stk[j])
         /\ m2[1] = Comes(b, <<>>, 1)
<1>1. stk \in Seq(Calls) /\ c.block_count \in Nat
  BY DEF GeneratorInv, CallsNest, Contexts
<1>2. ASSUME NEW block, Anchored(c, block)
      PROVE  block \in 1 .. c.block_count /\ Anchored(d, block)
  <2>1. block \in EmittedBy(c)
    BY <1>2 DEF Anchored, EmittedBy
  <2> QED BY <1>2, <2>1 DEF Means, Fine, Grows
<1>3. ASSUME NEW j \in 1 .. Len(stk)
      PROVE  CallMeans(b, m2, d, stk[j])
  <2>1. /\ stk[j] \in Calls
        /\ CallMeans(b, m, c, stk[j])
        /\ BoundedCall(stk[j], c.block_count)
        /\ BranchesLead(b, stk[j])
    BY <1>1 DEF GeneratorInv, StackFacts, Bounded, Means
  <2> QED BY <1>1, <1>2, <2>1, CallMeansStill
<1>4. 1 \in 1 .. c.block_count
  BY <1>1 DEF GeneratorInv, Bounded, Contexts
<1> QED BY <1>3, <1>4 DEF Means, Agree

(* The call at the top goes on to its next statement.                      *)
LEMMA ProceedingMeans ==
  ASSUME NEW b, NEW stk, NEW scopes, NEW c, GeneratorInv(b, scopes, stk, c), NEW m, Means(b, m, stk, c),
         NEW top \in Calls, top.path = TopOf(stk).path, top.within = 0,
         NEW d, Grows(c, d), BreaksTo(b, m, d.break_end_block, top.path),
         Fine(b, m, d, PendingOfFirst(b, stk, Len(stk) - 1), Comes(b, top.path, top.n))
  PROVE  Means(b, m, Replaced(stk, top), d)
<1> DEFINE stk2 == Replaced(stk, top)
<1>1. stk \in Seq(Calls) /\ Len(stk) > 0
  BY DEF GeneratorInv, CallsNest
<1>2. ReplacesTop(stk2, stk, top)
  BY <1>1, ReplaceTop
<1> HIDE DEF stk2
<1>3. PICK N \in Nat : Len(stk) = N + 1
  <2>1. Len(stk) - 1 \in Nat /\ Len(stk) = (Len(stk) - 1) + 1
    BY <1>1
  <2> QED BY <2>1
<1>4. /\ stk2 \in Seq(Calls)
      /\ Len(stk2) = N + 1
      /\ \A j \in 1 .. N : stk2[j] = stk[j]
      /\ stk2[N + 1] = top
      /\ TopOf(stk2) = top
      /\ Len(stk) - 1 = N
  BY <1>2, <1>3 DEF ReplacesTop, TopOf
<1>5. PendingOf(b, top) = {} /\ ~ LoopCall(b, top)
  BY DEF PendingOf, LoopCall
<1>6. Pending(b, stk2) = PendingOfFirst(b, stk, N)
  <2>1. Len(stk2) > 0 /\ Len(stk2) - 1 = N
    BY <1>4
  <2>2. Pending(b, stk2) = PendingOfFirst(b, stk2, N) \cup PendingOf(b, TopOf(stk2))
    BY <1>4, <2>1, PendingIs
  <2>3. PendingOfFirst(b, stk2, N) = PendingOfFirst(b, stk, N)
    BY <1>1, <1>4, FewerCallsPend
  <2> QED BY <1>4, <1>5, <2>2, <2>3
<1>7. (\A j \in 1 .. Len(stk) : CallMeans(b, m, d, stk[j])) /\ m[1] = Comes(b, <<>>, 1)
  <2>1. Agree(m, m, 1 .. c.block_count)
    BY DEF Agree
  <2> QED BY <2>1, CallersMeanStill
<1>8. ASSUME NEW j \in 1 .. Len(stk2)
      PROVE  CallMeans(b, m, d, stk2[j])
  <2>1. CASE j = N + 1
    BY <1>4, <2>1 DEF CallMeans
  <2>2. CASE j # N + 1
    <3>1. j \in 1 .. N /\ j \in 1 .. Len(stk)
      BY <1>3, <1>4, <2>2
    <3> QED BY <1>4, <1>7, <3>1
  <2> QED BY <2>1, <2>2
<1>9. Apart(b, stk2)
  <2>1. ASSUME NEW i \in 1 .. N + 1, NEW j \in 1 .. N + 1, i # j, NEW x \in PendingOf(b, stk2[i])
        PROVE  x \notin PendingOf(b, stk2[j])
    <3>1. CASE i = N + 1 \/ j = N + 1
      BY <1>4, <1>5, <2>1, <3>1
    <3>2. CASE i # N + 1 /\ j # N + 1
      <4>1. i \in 1 .. N /\ j \in 1 .. N /\ i \in 1 .. Len(stk) /\ j \in 1 .. Len(stk)
        BY <1>3, <3>2
      <4>2. stk2[i] = stk[i] /\ stk2[j] = stk[j]
        BY <1>4, <4>1
      <4> QED BY <2>1, <4>1, <4>2 DEF Means, Apart
    <3> QED BY <3>1, <3>2
  <2> QED BY <1>4, <2>1 DEF Apart
<1>10. ComesNow(b, top) = Comes(b, top.path, top.n)
  BY DEF ComesNow
<1>11. Fine(b, m, d, Pending(b, stk2), ComesNow(b, TopOf(stk2)))
  BY <1>4, <1>6, <1>10
<1>12. Means(b, m, stk2, d)
  BY <1>4, <1>7, <1>8, <1>9, <1>11 DEF Means
<1> QED BY <1>12 DEF stk2

(* It enters the next list of its statement.                               *)
LEMMA EnteringMeans ==
  ASSUME NEW b, NEW stk, NEW scopes, NEW c, GeneratorInv(b, scopes, stk, c), NEW m, Means(b, m, stk, c),
         NEW m2, Agree(m, m2, 1 .. c.block_count),
         NEW top \in Calls, NEW child \in Calls, child.within = 0,
         NEW d, Grows(c, d), CallMeans(b, m2, d, top), BreaksTo(b, m2, d.break_end_block, child.path),
         \A x \in PendingOf(b, top) : x \notin PendingOfFirst(b, stk, Len(stk) - 1),
         Fine(b, m2, d, PendingOfFirst(b, stk, Len(stk) - 1) \cup PendingOf(b, top),
              Comes(b, child.path, child.n))
  PROVE  Means(b, m2, Pushed(stk, top, child), d)
<1> DEFINE stk2 == Pushed(stk, top, child)
<1>1. stk \in Seq(Calls) /\ Len(stk) > 0
  BY DEF GeneratorInv, CallsNest
<1>2. PushesOnTop(stk2, stk, top, child)
  BY <1>1, ReplaceTopAndPush
<1> HIDE DEF stk2
<1>3. PICK N \in Nat : Len(stk) = N + 1
  <2>1. Len(stk) - 1 \in Nat /\ Len(stk) = (Len(stk) - 1) + 1
    BY <1>1
  <2> QED BY <2>1
<1>4. /\ stk2 \in Seq(Calls)
      /\ Len(stk2) = N + 2
      /\ \A j \in 1 .. N : stk2[j] = stk[j]
      /\ stk2[N + 1] = top
      /\ stk2[N + 2] = child
      /\ TopOf(stk2) = child
      /\ Len(stk) - 1 = N
  BY <1>2, <1>3 DEF PushesOnTop, TopOf
<1>5. PendingOf(b, child) = {} /\ ~ LoopCall(b, child)
  BY DEF PendingOf, LoopCall
<1>6. Pending(b, stk2) = PendingOfFirst(b, stk, N) \cup PendingOf(b, top)
  <2>1. Len(stk2) > 0 /\ Len(stk2) - 1 = N + 1 /\ N < Len(stk2)
    BY <1>4
  <2>2. Pending(b, stk2) = PendingOfFirst(b, stk2, N + 1) \cup PendingOf(b, TopOf(stk2))
    BY <1>4, <2>1, PendingIs
  <2>3. PendingOfFirst(b, stk2, N) = PendingOfFirst(b, stk, N)
    BY <1>1, <1>4, FewerCallsPend
  <2>4. OneCallMore(b, stk2, N)
    BY <1>4, <2>1, PendingOfNext
  <2> QED BY <1>4, <1>5, <2>2, <2>3, <2>4 DEF OneCallMore
<1>7. (\A j \in 1 .. Len(stk) : CallMeans(b, m2, d, stk[j])) /\ m2[1] = Comes(b, <<>>, 1)
  BY CallersMeanStill
<1>8. ASSUME NEW j \in 1 .. Len(stk2)
      PROVE  CallMeans(b, m2, d, stk2[j])
  <2>1. CASE j = N + 2
    BY <1>4, <2>1 DEF CallMeans
  <2>2. CASE j = N + 1
    BY <1>4, <2>2
  <2>3. CASE j # N + 2 /\ j # N + 1
    <3>1. j \in 1 .. N /\ j \in 1 .. Len(stk)
      BY <1>3, <1>4, <2>3
    <3> QED BY <1>4, <1>7, <3>1
  <2> QED BY <2>1, <2>2, <2>3
<1>9. Apart(b, stk2)
  <2>0. \A j \in 1 .. N : \A x \in PendingOf(b, stk[j]) : x \in PendingOfFirst(b, stk, N)
    <3>1. \A j \in 1 .. N : PendingOf(b, stk[j]) \subseteq Nat
      <4>1. \A j \in 1 .. N : stk[j] \in Calls
        BY <1>1, <1>3
      <4> QED BY <4>1, PendingBlocks
    <3> QED BY <3>1 DEF PendingOfFirst
  <2>1. ASSUME NEW i \in 1 .. N + 2, NEW j \in 1 .. N + 2, i # j, NEW x \in PendingOf(b, stk2[i])
        PROVE  x \notin PendingOf(b, stk2[j])
    <3>1. CASE i = N + 2 \/ j = N + 2
      BY <1>4, <1>5, <2>1, <3>1
    <3>2. CASE i \in 1 .. N /\ j \in 1 .. N
      <4>1. i \in 1 .. Len(stk) /\ j \in 1 .. Len(stk)
        BY <1>3, <3>2
      <4>2. stk2[i] = stk[i] /\ stk2[j] = stk[j]
        BY <1>4, <3>2
      <4> QED BY <2>1, <4>1, <4>2 DEF Means, Apart
    <3>3. CASE i = N + 1 /\ j \in 1 .. N
      BY <1>4, <2>0, <2>1, <3>3
    <3>4. CASE j = N + 1 /\ i \in 1 .. N
      BY <1>4, <2>0, <2>1, <3>4
    <3> QED BY <2>1, <3>1, <3>2, <3>3, <3>4
  <2> QED BY <1>4, <2>1 DEF Apart
<1>10. ComesNow(b, child) = Comes(b, child.path, child.n)
  BY DEF ComesNow
<1>11. Fine(b, m2, d, Pending(b, stk2), ComesNow(b, TopOf(stk2)))
  BY <1>4, <1>6, <1>10
<1>12. Means(b, m2, stk2, d)
  BY <1>4, <1>7, <1>8, <1>9, <1>11 DEF Means
<1> QED BY <1>12 DEF stk2

(* It returns from the end of its list.                                    *)
LEMMA LeavingMeans ==
  ASSUME NEW b, NEW stk, NEW scopes, NEW c, GeneratorInv(b, scopes, stk, c), NEW m, Means(b, m, stk, c),
         Len(stk) > 1, TopOf(stk).within = 0, ~ (TopOf(stk).n <= Len(ListOf(b, TopOf(stk))))
  PROVE  Means(b, m, CallersOf(stk), c)
<1> DEFINE stk2 == CallersOf(stk)
           top == TopOf(stk)
<1>1. CallsNest(b, stk, scopes) /\ stk \in Seq(Calls) /\ Len(stk) > 0
  BY DEF GeneratorInv, CallsNest
<1>2. PICK N \in Nat : Len(stk) = N + 1 /\ N > 0
  <2>1. Len(stk) - 1 \in Nat /\ Len(stk) = (Len(stk) - 1) + 1 /\ Len(stk) - 1 > 0
    BY <1>1
  <2> QED BY <2>1
<1>3. CallsNest(b, stk2, scopes) /\ Len(stk2) = N /\ TopOf(stk2) = stk[N]
      /\ \A j \in 1 .. N : stk2[j] = stk[j]
  <2>1. Len(stk) - 1 = N
    BY <1>2
  <2> QED BY <1>1, <2>1, LeaveKeepsNesting
<1>4. Pending(b, stk2) = Pending(b, stk)
  BY <1>1, LeaveKeepsFacts DEF GeneratorInv
<1> HIDE DEF stk2
<1>5. /\ stk[N] \in Calls
      /\ stk[N].within > 0
      /\ top.path = Within(stk[N].path, stk[N].n, stk[N].within)
  <2>1. N + 1 \in 1 .. Len(stk) /\ N \in 1 .. Len(stk) /\ N < Len(stk) /\ (N + 1) - 1 = N /\ N + 1 > 1
    BY <1>2
  <2>2. IsUnderWay(b, stk[N])
    BY <1>1, <2>1 DEF CallsNest
  <2>3. top = stk[N + 1]
    BY <1>2 DEF TopOf
  <2> QED BY <1>1, <2>1, <2>2, <2>3 DEF CallsNest, IsUnderWay
<1>6. top.n = Len(ListOf(b, top)) + 1
  <2>1. top \in Calls /\ ListOf(b, top) \in Bodies /\ top.n <= Len(ListOf(b, top)) + 1
    BY <1>1, TopIsCall DEF IsCallOf
  <2>2. Len(ListOf(b, top)) \in Nat
    BY <2>1, StatementsAreTyped
  <2> QED BY <2>1, <2>2 DEF Calls
<1>7. ComesNow(b, stk[N]) = ComesNow(b, top)
  <2>1. stk[N].within # 0
    BY <1>5
  <2>2. ListWithin(b, stk[N]) = ListOf(b, top)
    BY <1>5 DEF ListWithin, ListOf
  <2> QED BY <1>5, <1>6, <2>1, <2>2 DEF ComesNow
<1>8. ASSUME ~ LoopCall(b, stk[N])
      PROVE  BreaksTo(b, m, c.break_end_block, stk[N].path)
  <2>1. ~ LoopCall(b, top)
    BY DEF LoopCall
  <2>2. BreaksTo(b, m, c.break_end_block, top.path)
    BY <2>1 DEF Means
  <2> DEFINE call == stk[N]
  <2>3. ~ IsLoop(StatementsAt(b, call.path)[call.n])
    BY <1>5, <1>8 DEF LoopCall, StatementOf, ListOf
  <2>4. call.path \in Paths /\ call.n \in Nat /\ call.within \in Nat
    BY <1>5 DEF Calls
  <2> QED BY <1>5, <2>2, <2>3, <2>4, BreakFromWithin DEF BreaksTo
<1>9. \A j \in 1 .. N : CallMeans(b, m, c, stk2[j])
  BY <1>2, <1>3 DEF Means
<1>10. Apart(b, stk2)
  <2>1. \A j \in 1 .. N : j \in 1 .. Len(stk) /\ stk2[j] = stk[j]
    BY <1>2, <1>3
  <2>2. ASSUME NEW i \in 1 .. N, NEW j \in 1 .. N, i # j, NEW x \in PendingOf(b, stk2[i])
        PROVE  x \notin PendingOf(b, stk2[j])
    <3>1. stk2[i] = stk[i] /\ stk2[j] = stk[j] /\ i \in 1 .. Len(stk) /\ j \in 1 .. Len(stk)
      BY <2>1
    <3> QED BY <2>2, <3>1 DEF Means, Apart
  <2> QED BY <1>3, <2>2 DEF Apart
<1>11. Fine(b, m, c, Pending(b, stk2), ComesNow(b, TopOf(stk2)))
  BY <1>3, <1>4, <1>7 DEF Means
<1>12. Means(b, m, stk2, c)
  BY <1>3, <1>8, <1>9, <1>10, <1>11 DEF Means
<1> QED BY <1>12 DEF stk2

(* The generator begins, or starts over.                                   *)
LEMMA MeaningBegins ==
  ASSUME NEW b
  PROVE  \E m : Means(b, m, <<FirstCall>>, NewContext)
<1> DEFINE call == FirstCall
           stk == <<call>>
           m == [x \in {1} |-> Comes(b, <<>>, 1)]
           c == NewContext
<1>1. call.within = 0 /\ call.n = 1 /\ call.path = <<>>
  BY DEF Call, FirstCall
<1>2. call \in Calls
  <2>1. <<>> \in Paths /\ 0 \in Nat
    BY DEF Paths
  <2> QED BY <2>1, FreshCalls DEF FirstCall
<1> HIDE DEF call
<1>3. Len(stk) = 1 /\ stk[1] = call /\ TopOf(stk) = call /\ stk \in Seq(Calls)
  BY <1>2 DEF TopOf
<1> HIDE DEF stk
<1>4. /\ c \in Contexts
      /\ c.blocks = <<>>
      /\ c.instructions = <<>>
      /\ c.current_block = 1
      /\ c.block_count = 1
      /\ c.break_end_block = 0
      /\ EmittedBy(c) = {}
  BY NewIsGood DEF NewContext
<1> HIDE DEF c
<1>5. Len(c.blocks) = 0 /\ Len(c.instructions) = 0
  BY <1>4
<1>6. m[1] = Comes(b, <<>>, 1)
  OBVIOUS
<1> HIDE DEF m
<1>7. PendingOf(b, call) = {} /\ ~ LoopCall(b, call) /\ ComesNow(b, call) = Comes(b, <<>>, 1)
  BY <1>1 DEF PendingOf, LoopCall, ComesNow
<1>8. Pending(b, stk) = {}
  BY <1>3, <1>7 DEF Pending, PendingOfFirst
<1>9. BlocksMean(b, m, c)
  BY <1>5 DEF BlocksMean, Distinct
<1>10. Flows(b, m, 1, <<>>, Comes(b, <<>>, 1))
  <2>1. Len(<<>>) = 0
    OBVIOUS
  <2> QED BY <1>6, <2>1 DEF Flows
<1>11. JumpsAhead(c, c.instructions, EmittedBy(c) \cup {c.current_block})
  BY <1>5 DEF JumpsAhead
<1>12. Fine(b, m, c, Pending(b, stk), ComesNow(b, TopOf(stk)))
  BY <1>3, <1>4, <1>5, <1>7, <1>8, <1>9, <1>10, <1>11 DEF Fine
<1>13. \A j \in 1 .. Len(stk) : CallMeans(b, m, c, stk[j])
  BY <1>1, <1>3 DEF CallMeans
<1>14. Apart(b, stk)
  BY <1>3 DEF Apart
<1>15. BreaksTo(b, m, c.break_end_block, TopOf(stk).path)
  BY <1>4 DEF BreaksTo
<1>16. Means(b, m, stk, c)
  BY <1>6, <1>12, <1>13, <1>14, <1>15 DEF Means
<1> QED BY <1>16 DEF stk, call, c

(***************************************************************************)
(* The steps of the generator                                              *)
(***************************************************************************)

(* What is known of the meaning before the end of a list.                  *)
LEMMA MeaningNow ==
  ASSUME Inv, Generating, NEW m, Means(body, m, stack, context)
  PROVE  /\ Fine(body, m, context, PendingOfCallers \cup PendingOf(body, Top), ComesNow(body, Top))
         /\ CallMeans(body, m, context, Top)
         /\ ~ LoopCall(body, Top) => BreaksTo(body, m, context.break_end_block, Top.path)
         /\ \A x \in PendingOf(body, Top) : x \notin PendingOfCallers
         /\ TargetsKnown(context, PendingOfCallers \cup PendingOf(body, Top))
<1>1. Pending(body, stack) = PendingOfCallers \cup PendingOf(body, Top)
  BY TopIsKnown, PendingIs DEF PendingOfCallers
<1>2. /\ Fine(body, m, context, PendingOfCallers \cup PendingOf(body, Top), ComesNow(body, Top))
      /\ ~ LoopCall(body, Top) => BreaksTo(body, m, context.break_end_block, Top.path)
  BY <1>1, TopIsKnown DEF Means
<1>3. PICK N \in Nat : Len(stack) = N + 1
  <2>1. Len(stack) - 1 \in Nat /\ Len(stack) = (Len(stack) - 1) + 1
    BY TopIsKnown
  <2> QED BY <2>1
<1>4. Top = stack[N + 1] /\ N + 1 \in 1 .. Len(stack) /\ Len(stack) - 1 = N
  BY <1>3, TopIsKnown DEF TopOf
<1>5. CallMeans(body, m, context, Top)
  BY <1>4 DEF Means
<1>6. ASSUME NEW x \in PendingOf(body, Top)
      PROVE  x \notin PendingOfCallers
  <2>1. ASSUME NEW j \in 1 .. N
        PROVE  x \notin PendingOf(body, stack[j])
    <3>1. j \in 1 .. Len(stack) /\ j # N + 1
      BY <1>3
    <3> QED BY <1>4, <1>6, <3>1 DEF Means, Apart
  <2> QED BY <1>4, <2>1 DEF PendingOfCallers, PendingOfFirst
<1>7. TargetsKnown(context, PendingOfCallers \cup PendingOf(body, Top))
  BY GeneratingIs DEF Good
<1> QED BY <1>2, <1>5, <1>6, <1>7

(* Where a statement begins.                                               *)
LEMMA MeaningAtBeginning ==
  ASSUME Inv, Generating, Top.within = 0, NEW m, Means(body, m, stack, context)
  PROVE  /\ Fine(body, m, context, PendingOfCallers, Comes(body, Top.path, Top.n))
         /\ BreaksTo(body, m, context.break_end_block, Top.path)
         /\ TargetsKnown(context, PendingOfCallers)
<1>1. PendingOf(body, Top) = {} /\ ~ LoopCall(body, Top) /\ ComesNow(body, Top) = Comes(body, Top.path, Top.n)
  BY DEF PendingOf, LoopCall, ComesNow
<1>2. PendingOfCallers \cup PendingOf(body, Top) = PendingOfCallers
  BY <1>1
<1> QED BY <1>1, <1>2, MeaningNow

(* The statement that the generator is at.                                 *)
LEMMA CurrentPlace ==
  ASSUME Inv, Generating
  PROVE  /\ Top.path \in Paths
         /\ Top.n \in Nat \ {0}
         /\ Len(StatementsAt(body, Top.path)) \in Nat
         /\ Top.n <= Len(StatementsAt(body, Top.path))
         /\ Current = StatementsAt(body, Top.path)[Top.n]
<1>1. ~ AtEnd
  BY DEF Generating
<1>2. List = StatementsAt(body, Top.path)
  BY DEF List
<1> QED BY <1>1, <1>2, TopIsKnown, CurrentIsKnown DEF Calls, Current

(* An instruction for a part of the current statement.                     *)
LEMMA PartOf ==
  ASSUME Inv, Generating, NEW part \in Int, NEW kind \in {"other", "return", "branch"},
         NEW targets \in Seq(Nat), NEW m
  PROVE  LET i == Instruction(kind, Here(part), targets)
         IN  /\ i \in Instructions
             /\ i.kind = kind
             /\ i.targets = targets
             /\ Event(m, i) = Point(Top.path, Top.n, part)
             /\ \A e : e \in MayFollow(body, Top.path, Top.n, part) => Steps(body, i.point, e)
<1> DEFINE i == Instruction(kind, Here(part), targets)
<1>1. i \in Instructions /\ i.kind = kind /\ i.targets = targets
  BY InstructionsAreTyped
<1>2. i.point = <<Top.path, Top.n, part>>
  BY DEF Instruction, Here, Point
<1> HIDE DEF i
<1>3. Event(m, i) = i.point
  BY <1>1 DEF Event
<1>4. ASSUME NEW e \in MayFollow(body, Top.path, Top.n, part)
      PROVE  Steps(body, i.point, e)
  <2>1. i.point[1] = Top.path /\ i.point[2] = Top.n /\ i.point[3] = part
    BY <1>2
  <2> QED BY <2>1, CurrentPlace DEF Steps
<1> QED BY <1>1, <1>2, <1>3, <1>4 DEF i, Point

(* The same of an instruction that leads nowhere.                          *)
LEMMA PlainPart ==
  ASSUME Inv, Generating, NEW part \in Int, NEW kind \in {"other", "return"}, NEW m
  PROVE  LET i == Instruction(kind, Here(part), <<>>)
         IN  /\ i \in Instructions
             /\ i.kind = kind
             /\ i.targets = <<>>
             /\ Event(m, i) = Point(Top.path, Top.n, part)
             /\ \A e : e \in MayFollow(body, Top.path, Top.n, part) => Steps(body, i.point, e)
<1> DEFINE none == <<>>
           i == Instruction(kind, Here(part), none)
<1>1. none \in Seq(Nat) /\ kind \in {"other", "return", "branch"}
  OBVIOUS
<1> HIDE DEF none, i
<1>2. /\ i \in Instructions
      /\ i.kind = kind
      /\ i.targets = none
      /\ Event(m, i) = Point(Top.path, Top.n, part)
      /\ \A e : e \in MayFollow(body, Top.path, Top.n, part) => Steps(body, i.point, e)
  BY <1>1, PartOf DEF i
<1> QED BY <1>2 DEF none, i

StaysMeaningful == \E m : Means(body, m, stack, context)

(* The walk goes on to the next statement.                                 *)
LEMMA MeansNext ==
  ASSUME Inv, Generating, NEW m, Means(body, m, stack, context), NEW u \in BOOLEAN,
         NEW d, Grows(context, d), BreaksTo(body, m, d.break_end_block, Top.path),
         Fine(body, m, d, PendingOfCallers, Comes(body, Top.path, Top.n + 1)),
         stack' = Append(Callers, [[Top EXCEPT !.unreachable = u] EXCEPT !.n = Top.n + 1, !.within = 0]),
         context' = d, UNCHANGED body
  PROVE  StaysMeaningful'
<1> DEFINE top == [[Top EXCEPT !.unreachable = u] EXCEPT !.n = Top.n + 1, !.within = 0]
<1>1. /\ top \in Calls
      /\ top.path = Top.path
      /\ top.n = Top.n + 1
      /\ top.within = 0
  BY NextCall
<1> HIDE DEF top
<1>2. stack' = Replaced(stack, top)
  BY DEF Callers, Replaced, top
<1>3. Means(body, m, Replaced(stack, top), d)
  <2>1. GeneratorInv(body, child_scopes, stack, context)
    BY GeneratingIs
  <2>2. top.path = TopOf(stack).path
    BY <1>1, TopIsKnown
  <2>3. Fine(body, m, d, PendingOfFirst(body, stack, Len(stack) - 1), Comes(body, top.path, top.n))
    BY <1>1 DEF PendingOfCallers
  <2> QED BY <1>1, <2>1, <2>2, <2>3, ProceedingMeans
<1> QED BY <1>2, <1>3 DEF StaysMeaningful

(* The same, with the variables of the call as they were.                  *)
LEMMA MeansOn ==
  ASSUME Inv, Generating, NEW m, Means(body, m, stack, context),
         NEW d, Grows(context, d), BreaksTo(body, m, d.break_end_block, Top.path),
         Fine(body, m, d, PendingOfCallers, Comes(body, Top.path, Top.n + 1)),
         Proceed(Top), context' = d, UNCHANGED body
  PROVE  StaysMeaningful'
<1> DEFINE u == Top.unreachable
<1>1. u \in BOOLEAN /\ [Top EXCEPT !.unreachable = u] = Top
  BY TopIsKnown DEF Calls
<1>2. stack' = Append(Callers, [[Top EXCEPT !.unreachable = u] EXCEPT !.n = Top.n + 1, !.within = 0])
  BY <1>1 DEF Proceed
<1> HIDE DEF u
<1> QED BY <1>1, <1>2, MeansNext

(* The same blocks are no fewer.                                           *)
LEMMA GrowsByNothing ==
  ASSUME NEW c, NEW d, d.blocks = c.blocks
  PROVE  Grows(c, d)
BY SameBlocks DEF Grows

(* A declaration in a body is passed by.                                   *)
LEMMA DeclarationMeans ==
  ASSUME Inv, Declaration, NEW m, Means(body, m, stack, context)
  PROVE  StaysMeaningful'
<1>1. Generating /\ Current.kind = "declaration" /\ Proceed(Top) /\ context' = context /\ UNCHANGED body
  BY DEF Declaration
<1>2. Top.within = 0
  <2>1. ~ AtEnd
    BY <1>1 DEF Generating
  <2>2. BodyCount(Current) = 0
    BY <1>1, <2>1, CurrentIsKnown, BodyCountOf
  <2> QED BY <2>1, <2>2, CurrentIsKnown, TopIsKnown
<1>3. Comes(body, Top.path, Top.n) = Comes(body, Top.path, Top.n + 1)
  BY <1>1, CurrentPlace, AtTheStatement
<1>4. Grows(context, context)
  BY DEF Grows
<1> QED BY <1>1, <1>2, <1>3, <1>4, MeaningAtBeginning, MeansOn

(* So is a statement that generates nothing.                               *)
LEMMA NothingMeans ==
  ASSUME Inv, Nothing, NEW m, Means(body, m, stack, context)
  PROVE  StaysMeaningful'
<1>1. Begins("nothing") /\ Commit(Begun) /\ Proceed(Top)
  BY DEF Nothing
<1>2. /\ Generating /\ Current.kind = "nothing" /\ Top.within = 0
      /\ context' = context /\ UNCHANGED body
  BY <1>1, BeginningIs DEF Begins, Commit
<1>3. Comes(body, Top.path, Top.n) = Comes(body, Top.path, Top.n + 1)
  BY <1>2, CurrentPlace, AtTheStatement
<1>4. Grows(context, context)
  BY DEF Grows
<1> QED BY <1>1, <1>2, <1>3, <1>4, MeaningAtBeginning, MeansOn

(* An effect happens, and then what comes after it.                        *)
LEMMA EffectMeans ==
  ASSUME Inv, Effect, NEW m, Means(body, m, stack, context)
  PROVE  StaysMeaningful'
<1> DEFINE i == Instruction("other", Here(0), <<>>)
           d == Emit(context, i)
           e == Comes(body, Top.path, Top.n + 1)
<1>1. Begins("effect") /\ Commit(Emit(Begun, i)) /\ Proceed(Top)
  BY DEF Effect
<1>2. /\ Generating /\ Current.kind = "effect" /\ Top.within = 0
      /\ context' = d /\ UNCHANGED body
  BY <1>1, BeginningIs DEF Begins, Commit
<1>3. /\ i \in Instructions
      /\ i.kind = "other"
      /\ Event(m, i) = Point(Top.path, Top.n, 0)
      /\ \A x : x \in MayFollow(body, Top.path, Top.n, 0) => Steps(body, i.point, x)
  BY <1>2, PlainPart
<1> HIDE DEF i
<1>4. Comes(body, Top.path, Top.n) = Point(Top.path, Top.n, 0)
  BY <1>2, CurrentPlace, AtTheStatement
<1>5. e \in MayFollow(body, Top.path, Top.n, 0)
  BY <1>2, CurrentPlace DEF MayFollow
<1> HIDE DEF e
<1>6. Right(body, m, i, e)
  BY <1>3, <1>5 DEF Right
<1>7. Fine(body, m, context, PendingOfCallers, Comes(body, Top.path, Top.n))
      /\ BreaksTo(body, m, context.break_end_block, Top.path)
  BY <1>2, MeaningAtBeginning
<1>8. Fine(body, m, d, PendingOfCallers, e)
  BY <1>3, <1>4, <1>6, <1>7, FineEmit
<1>9. d.blocks = context.blocks /\ d.break_end_block = context.break_end_block
  BY <1>3, <1>7, EmitIs DEF Fine
<1> HIDE DEF d
<1>10. Grows(context, d)
  BY <1>9, GrowsByNothing
<1> QED BY <1>1, <1>2, <1>7, <1>8, <1>9, <1>10, MeansOn DEF e

(* The list ends with the instruction i.                                   *)
LEMMA LeavingMeansNothing ==
  ASSUME Inv, NEW kind \in Leaving, Begins(kind), NEW m, Means(body, m, stack, context),
         NEW i \in Instructions, i.kind \in Terminators, Commit(Emit(Begun, i)), Leave,
         Event(m, i) = Comes(body, Top.path, Top.n), \A e : Right(body, m, i, e),
         i.kind = "jump" => i.targets[1] \in PendingOfCallers
  PROVE  StaysMeaningful'
<1> DEFINE d == Emit(context, i)
           e == Comes(body, Top.path, Top.n + 1)
<1>1. /\ Generating /\ Current.kind = kind /\ Top.within = 0
      /\ context' = d /\ UNCHANGED body
  BY BeginningIs DEF Begins, Commit
<1>2. Fine(body, m, context, PendingOfCallers, Comes(body, Top.path, Top.n))
      /\ BreaksTo(body, m, context.break_end_block, Top.path)
  BY <1>1, MeaningAtBeginning
<1>3. Fine(body, m, d, PendingOfCallers, e)
  <2> HIDE DEF e
  <2> QED BY <1>2, FineEmit
<1>4. d.blocks = context.blocks /\ d.break_end_block = context.break_end_block
  BY <1>2, EmitIs DEF Fine
<1> HIDE DEF d
<1>5. Grows(context, d)
  BY <1>4, GrowsByNothing
<1>6. LeavesList(Current.kind) = TRUE
  BY <1>1 DEF LeavesList, Leaving
<1>7. stack' = Append(Callers, [[Top EXCEPT !.unreachable = TRUE] EXCEPT !.n = Top.n + 1, !.within = 0])
  <2>1. Proceed([Top EXCEPT !.unreachable = TRUE])
    BY <1>6 DEF Leave
  <2> QED BY <2>1 DEF Proceed
<1>8. PICK u \in BOOLEAN : u = TRUE
  OBVIOUS
<1> QED BY <1>1, <1>2, <1>3, <1>4, <1>5, <1>7, <1>8, MeansNext

(* A return is the last thing to happen.                                   *)
LEMMA ReturnMeans ==
  ASSUME Inv, Return, NEW m, Means(body, m, stack, context)
  PROVE  StaysMeaningful'
<1> DEFINE i == Instruction("return", Here(0), <<>>)
<1>1. Begins("return") /\ Commit(Emit(Begun, i)) /\ Leave
  BY DEF Return
<1>2. Generating /\ Current.kind = "return"
  BY <1>1 DEF Begins
<1>3. /\ i \in Instructions
      /\ i.kind = "return"
      /\ Event(m, i) = Point(Top.path, Top.n, 0)
      /\ \A x : x \in MayFollow(body, Top.path, Top.n, 0) => Steps(body, i.point, x)
  BY <1>2, PlainPart
<1> HIDE DEF i
<1>4. Comes(body, Top.path, Top.n) = Point(Top.path, Top.n, 0)
  BY <1>2, CurrentPlace, AtTheStatement
<1>5. Structured!Returned \in MayFollow(body, Top.path, Top.n, 0)
  BY <1>2, CurrentPlace DEF MayFollow
<1>6. \A e : Right(body, m, i, e)
  BY <1>3, <1>5 DEF Right
<1> QED
  BY <1>1, <1>3, <1>4, <1>6, LeavingMeansNothing DEF Leaving, Terminators

(* A break leads to what comes after the innermost loop.                   *)
LEMMA BreakMeans ==
  ASSUME Inv, Break, NEW m, Means(body, m, stack, context)
  PROVE  StaysMeaningful'
<1> DEFINE block == context.break_end_block
           i == Jump(block)
<1>1. Begins("break") /\ block # 0 /\ Commit(Emit(Begun, i)) /\ Leave
  BY DEF Break
<1>2. Generating /\ Current.kind = "break" /\ Top.within = 0
  BY <1>1 DEF Begins
<1>3. block \in Nat
  BY <1>2, ContextContinues
<1>4. i \in Instructions /\ i.kind = "jump" /\ i.targets = <<block>>
  BY <1>3, JumpIs
<1>5. block \in PendingOfCallers
  <2>1. EndsLoop(body, stack, Len(stack) - 1, block)
    BY <1>1, BeginningIs
  <2> QED BY <1>1, <1>3, <2>1, BreakTargetIsPending
<1>6. Structured!Loops(body, Top.path) # {} /\ m[block] = BreakTo(body, Top.path)
  BY <1>1, <1>2, MeaningAtBeginning DEF BreaksTo
<1>7. Comes(body, Top.path, Top.n) = BreakTo(body, Top.path)
  BY <1>2, <1>6, CurrentPlace, AtTheStatement
<1> HIDE DEF i, block
<1>8. i.targets[1] = block /\ Len(i.targets) = 1
  BY <1>4
<1>9. Event(m, i) = Comes(body, Top.path, Top.n)
  BY <1>4, <1>6, <1>7, <1>8 DEF Event
<1>10. \A e : Right(body, m, i, e)
  BY <1>4, <1>8 DEF Right
<1> QED
  BY <1>1, <1>4, <1>5, <1>8, <1>9, <1>10, LeavingMeansNothing DEF Leaving, Terminators

(* Taking a scope changes nothing but counters.                            *)
LEMMA TakingIs ==
  ASSUME NEW c \in Contexts
  PROVE  /\ TakeScope(c) \in Contexts
         /\ TakeScope(c).blocks = c.blocks
         /\ TakeScope(c).instructions = c.instructions
         /\ TakeScope(c).current_block = c.current_block
         /\ TakeScope(c).block_count = c.block_count
         /\ TakeScope(c).break_end_block = c.break_end_block
<1> DEFINE index == c.next_child_scope_index + 1
           holds == index <= Len(child_scopes)
           d == [c EXCEPT !.next_child_scope_index = index]
           failed == d.assertion_failed \/ ~ holds
           e == [d EXCEPT !.assertion_failed = failed]
<1>1. index \in Nat
  BY DEF Contexts
<1>2. failed \in BOOLEAN
  OBVIOUS
<1>3. TakeScope(c) = e
  BY DEF TakeScope, Assert
<1> HIDE DEF index, holds, failed
<1>4. /\ d \in Contexts
      /\ d.blocks = c.blocks
      /\ d.instructions = c.instructions
      /\ d.current_block = c.current_block
      /\ d.block_count = c.block_count
      /\ d.break_end_block = c.break_end_block
  BY <1>1 DEF Contexts
<1> HIDE DEF d
<1>5. /\ e \in Contexts
      /\ e.blocks = d.blocks
      /\ e.instructions = d.instructions
      /\ e.current_block = d.current_block
      /\ e.block_count = d.block_count
      /\ e.break_end_block = d.break_end_block
  BY <1>2, <1>4 DEF Contexts
<1> QED BY <1>3, <1>4, <1>5

(* The k-th list is entered with the variables of t and the context d.     *)
LEMMA MeansWithin ==
  ASSUME Inv, Generating, NEW m, Means(body, m, stack, context),
         NEW m2, Agree(m, m2, 1 .. context.block_count),
         NEW t \in Calls, NEW k \in Nat, t.path = Top.path, t.n = Top.n,
         NEW top, top = [t EXCEPT !.within = k],
         NEW d, Grows(context, d), CallMeans(body, m2, d, top),
         BreaksTo(body, m2, d.break_end_block, Within(Top.path, Top.n, k)),
         \A x \in PendingOf(body, top) : x \notin PendingOfCallers,
         Fine(body, m2, d, PendingOfCallers \cup PendingOf(body, top),
              Comes(body, Within(Top.path, Top.n, k), 1)),
         NEW scope \in Paths, Enter(t, k, scope, NextScope), Commit(TakeScope(d))
  PROVE  StaysMeaningful'
<1> DEFINE path == Within(Top.path, Top.n, k)
           child == Call(path, scope, NextScope)
           e == TakeScope(d)
<1>1. NextScope \in Paths
  BY NextScopeIsPath
<1>2. path \in Paths
  <2>1. Top.path \in Paths /\ Top.n \in Nat
    BY CurrentPlace
  <2> QED BY <2>1, WithinIsPath
<1>3. child \in Calls /\ child.path = path /\ child.n = 1 /\ child.within = 0
  <2>1. PICK count \in Nat : count = 1
    OBVIOUS
  <2> HIDE DEF path
  <2> QED BY <1>1, <1>2, <2>1, FreshCalls
<1>4. top \in Calls
  BY DEF Calls
<1>5. stack' = Pushed(stack, top, child) /\ context' = e /\ UNCHANGED body
  BY DEF Enter, Callers, Pushed, Commit
<1> HIDE DEF child
<1>6. d \in Contexts
  BY DEF Fine
<1>7. /\ e \in Contexts
      /\ e.blocks = d.blocks
      /\ e.instructions = d.instructions
      /\ e.current_block = d.current_block
      /\ e.block_count = d.block_count
      /\ e.break_end_block = d.break_end_block
  BY <1>6, TakingIs
<1> HIDE DEF e
<1>8. Fine(body, m2, e, PendingOfCallers \cup PendingOf(body, top), Comes(body, path, 1))
  <2> DEFINE pending == PendingOfCallers \cup PendingOf(body, top)
             now == Comes(body, path, 1)
  <2>1. Fine(body, m2, d, pending, now)
    OBVIOUS
  <2> HIDE DEF pending, now
  <2>2. d.block_count <= e.block_count
    BY <1>6, <1>7 DEF Contexts
  <2>3. \A x \in pending : x \in pending \/ x \in d.block_count + 1 .. e.block_count
    OBVIOUS
  <2>4. Fine(body, m2, e, pending, now)
    BY <1>7, <2>1, <2>2, <2>3, FineCounters
  <2> QED BY <2>4 DEF pending, now
<1>9. Grows(context, e) /\ CallMeans(body, m2, e, top)
  <2>1. \A block : Anchored(e, block) <=> Anchored(d, block)
    BY <1>7, SameBlocks
  <2> QED BY <2>1 DEF Grows, CallMeans
<1>10. BreaksTo(body, m2, e.break_end_block, child.path)
  BY <1>3, <1>7
<1>11. GeneratorInv(body, child_scopes, stack, context)
  BY GeneratingIs
<1>12. Means(body, m2, Pushed(stack, top, child), e)
  <2>1. \A x \in PendingOf(body, top) : x \notin PendingOfFirst(body, stack, Len(stack) - 1)
    BY DEF PendingOfCallers
  <2>2. Fine(body, m2, e, PendingOfFirst(body, stack, Len(stack) - 1) \cup PendingOf(body, top),
             Comes(body, child.path, child.n))
    BY <1>3, <1>8 DEF PendingOfCallers
  <2> QED BY <1>3, <1>4, <1>9, <1>10, <1>11, <2>1, <2>2, EnteringMeans
<1> QED BY <1>5, <1>12 DEF StaysMeaningful

(* An open block ends with a jump, and a pending one begins.               *)
LEMMA FineFinishAndChange ==
  ASSUME NEW b, NEW m, NEW c, NEW pending, NEW e, Fine(b, m, c, pending, e),
         NEW target \in Nat, IsOpen(c) => e = m[target], target \in pending \/ Anchored(c, target),
         NEW block \in pending, NEW pending2, Rest(pending2, pending, block)
  PROVE  LET d == change_block(FinishWithJump(c, target), block)
         IN  /\ Fine(b, m, d, pending2, m[block])
             /\ Grows(c, d)
             /\ d.block_count = c.block_count
             /\ d.break_end_block = c.break_end_block
<1> DEFINE f == FinishWithJump(c, target)
           d == StartBlock(f, block)
<1>1. /\ Fine(b, m, f, pending, e)
      /\ ~ IsOpen(f)
      /\ f.blocks = c.blocks
      /\ f.block_count = c.block_count
      /\ f.break_end_block = c.break_end_block
  BY FineFinish
<1> HIDE DEF f
<1>2. change_block(f, block) = d
  BY <1>1, ChangeIs DEF Fine
<1>3. /\ Fine(b, m, d, pending2, m[block])
      /\ d.block_count = f.block_count
      /\ d.break_end_block = f.break_end_block
      /\ \A x : Anchored(f, x) => Anchored(d, x)
  BY <1>1, FineStart
<1> HIDE DEF d
<1>4. Grows(c, d)
  BY <1>1, <1>3, SameBlocks DEF Grows
<1> QED BY <1>1, <1>2, <1>3, <1>4 DEF f

(* An open block ends with a branch, and the block that was allocated for  *)
(* its body begins.                                                        *)
LEMMA FineBranchAndChange ==
  ASSUME NEW b, NEW m, NEW c, NEW pending, NEW e, Fine(b, m, c, pending, e),
         NEW branch \in Instructions, branch.kind = "branch", e = branch.point,
         \A k \in 1 .. Len(branch.targets) : Steps(b, branch.point, m[branch.targets[k]]),
         NEW block \in pending, NEW pending2, Rest(pending2, pending, block)
  PROVE  LET d == change_block(Emit(c, branch), block)
         IN  /\ Fine(b, m, d, pending2, m[block])
             /\ Grows(c, d)
             /\ c.instructions = <<>> => Anchored(d, c.current_block)
             /\ d.block_count = c.block_count
             /\ d.break_end_block = c.break_end_block
<1> DEFINE f == Emit(c, branch)
           d == StartBlock(f, block)
<1>1. Event(m, branch) = e /\ Right(b, m, branch, e)
  BY DEF Event, Right
<1>2. c \in Contexts /\ c.instructions \in Seq(Instructions)
  BY DEF Fine, Contexts
<1>3. /\ ~ IsOpen(f)
      /\ f \in Contexts
      /\ f.instructions = Append(c.instructions, branch)
      /\ f.current_block = c.current_block
      /\ f.blocks = c.blocks
      /\ f.block_count = c.block_count
      /\ f.break_end_block = c.break_end_block
  BY <1>2, EmitIs DEF Terminators
<1>4. Fine(b, m, f, pending, e)
  BY <1>1, FineEmit
<1> HIDE DEF f
<1>5. change_block(f, block) = d
  BY <1>3, ChangeIs
<1>6. /\ Fine(b, m, d, pending2, m[block])
      /\ d.block_count = f.block_count
      /\ d.break_end_block = f.break_end_block
      /\ \A x : Anchored(f, x) => Anchored(d, x)
      /\ f.instructions # <<>> /\ f.instructions[1].kind # "jump" => Anchored(d, f.current_block)
  BY <1>4, FineStart
<1> HIDE DEF d
<1>7. Grows(c, d)
  BY <1>3, <1>6, SameBlocks DEF Grows
<1>8. ASSUME c.instructions = <<>>
      PROVE  Anchored(d, c.current_block)
  <2>1. f.instructions = <<branch>>
    BY <1>3, <1>8
  <2>2. f.instructions # <<>> /\ f.instructions[1] = branch
    BY <2>1
  <2> QED BY <1>3, <1>6, <2>2
<1> QED BY <1>3, <1>5, <1>6, <1>7, <1>8 DEF f

(* More is known of blocks that were allocated since.                      *)
LEMMA AgreeFurther ==
  ASSUME NEW m, NEW m1, NEW m2, NEW count \in Nat, NEW count2 \in Nat, count <= count2,
         Agree(m, m1, 1 .. count), Agree(m1, m2, 1 .. count2)
  PROVE  Agree(m, m2, 1 .. count)
BY DEF Agree

(* A break from a list of an if leads to where it led before.              *)
LEMMA BreaksFromIf ==
  ASSUME NEW b, NEW m, NEW m2, NEW count \in Nat, Agree(m, m2, 1 .. count),
         NEW block \in Nat, block <= count,
         NEW path \in Paths, NEW n \in Nat, NEW k \in Nat, ~ IsLoop(StatementsAt(b, path)[n]),
         BreaksTo(b, m, block, path)
  PROVE  BreaksTo(b, m2, block, Within(path, n, k))
<1>1. SUFFICES ASSUME block # 0
               PROVE  BreaksTo(b, m2, block, Within(path, n, k))
  BY DEF BreaksTo
<1>2. m2[block] = m[block]
  BY <1>1 DEF Agree
<1>3. Structured!Loops(b, path) # {} /\ m[block] = BreakTo(b, path)
  BY <1>1 DEF BreaksTo
<1>4. /\ Structured!Loops(b, Within(path, n, k)) = Structured!Loops(b, path)
      /\ BreakTo(b, Within(path, n, k)) = BreakTo(b, path)
  BY <1>3, BreakFromWithin
<1> QED BY <1>2, <1>3, <1>4 DEF BreaksTo

(* The k-th condition of an if, in the open block of c.                    *)
LEMMA ConditionMeans ==
  ASSUME Inv, Generating, Current.kind = "if",
         NEW k \in Nat, k > 0, k <= Conditions(Current), Conditions(Current) \in Nat,
         NEW m, Means(body, m, stack, context),
         BreaksTo(body, m, context.break_end_block, Top.path),
         NEW m1, Agree(m, m1, 1 .. context.block_count),
         NEW end_block \in Nat, end_block \notin PendingOfCallers,
         NEW c, Fine(body, m1, c, PendingOfCallers \cup {end_block}, Point(Top.path, Top.n, k)),
         TargetsKnown(c, PendingOfCallers \cup {end_block}),
         Grows(context, c), context.block_count <= c.block_count,
         c.break_end_block = context.break_end_block,
         m1[end_block] = Comes(body, Top.path, Top.n + 1),
         NEW if_scope \in Paths, Condition(c, k, end_block, if_scope)
  PROVE  StaysMeaningful'
<1> DEFINE count == c.block_count
           path == Top.path
           n == Top.n
           now == Point(path, n, k)
           inside == Comes(body, Within(path, n, k), 1)
           false == WhenFalse(body, path, n, k)
           next_block == BlockAfter(IsLast(k), end_block, count + 1)
           body_block == count + 2
           targets == <<body_block, next_block>>
           branch == Instruction("branch", Here(k), targets)
           pending == PendingOfCallers \cup {end_block}
           pending1 == PendingOfCallers \cup {end_block, next_block, body_block}
           pending2 == PendingOfCallers \cup {end_block, next_block}
           e == [c EXCEPT !.block_count = body_block]
           d == change_block(Emit(e, branch), body_block)
           t == [Top EXCEPT !.end_block = end_block, !.next_block = next_block,
                            !.if_scope = if_scope]
           top == [t EXCEPT !.within = k]
           m2 == [x \in Nat |-> IF x = count + 1 THEN false
                                ELSE IF x = count + 2 THEN inside ELSE m1[x]]
<1>1. Commit(TakeScope(d)) /\ Enter(t, k, if_scope, NextScope)
  BY DEF Condition
<1>2. c \in Contexts /\ count \in Nat /\ body_block \in Nat /\ count <= body_block
  BY DEF Fine, Contexts
<1>3. /\ path \in Paths
      /\ n \in Nat \ {0}
      /\ Current = StatementsAt(body, path)[n]
  BY CurrentPlace
<1>4. \A x \in pending : x \in 1 .. count
  BY DEF Fine
<1>5. /\ next_block \in Nat
      /\ IsLast(k) => next_block = end_block
      /\ ~ IsLast(k) => next_block = count + 1
  BY <1>2 DEF BlockAfter
<1>6. Agree(m1, m2, 1 .. count) /\ m2[count + 1] = false /\ m2[body_block] = inside
  BY <1>2 DEF Agree
<1>7. end_block \in 1 .. count
  BY <1>4
<1>8. m2[end_block] = Comes(body, path, n + 1)
  BY <1>6, <1>7 DEF Agree
<1>9. m2[next_block] = false
  <2>1. CASE IsLast(k)
    <3>1. false = Comes(body, path, n + 1)
      BY <1>3, <2>1 DEF IsLast, WhenFalse
    <3> QED BY <1>5, <1>8, <2>1, <3>1
  <2>2. CASE ~ IsLast(k)
    BY <1>5, <1>6, <2>2
  <2> QED BY <2>1, <2>2
<1> HIDE DEF m2
<1>10. Fine(body, m2, c, pending, now)
  <2> DEFINE x == pending
             y == now
  <2>1. Fine(body, m1, c, x, y) /\ TargetsKnown(c, x) /\ Agree(m1, m2, 1 .. c.block_count)
    BY <1>6
  <2> HIDE DEF x, y
  <2>2. Fine(body, m2, c, x, y)
    BY <2>1, FineMeaning
  <2> QED BY <2>2 DEF x, y
<1>11. \A x \in pending1 : x \in pending \/ x \in count + 1 .. body_block
  <2>1. next_block = end_block \/ next_block \in count + 1 .. body_block
    BY <1>2, <1>5
  <2>2. body_block \in count + 1 .. body_block
    BY <1>2
  <2> QED BY <2>1, <2>2
<1>12. Rest(pending2, pending1, body_block)
  <2>1. body_block # next_block /\ body_block # end_block
    BY <1>2, <1>5, <1>7
  <2>2. \A x \in PendingOfCallers : x # body_block
    BY <1>2, <1>4
  <2> QED BY <2>1, <2>2 DEF Rest
<1>13. body_block \in pending1
  OBVIOUS
<1>14. next_block \notin PendingOfCallers
  BY <1>2, <1>4, <1>5
<1>15. targets \in Seq(Nat)
  BY <1>2, <1>5
<1>16. Len(targets) = 2 /\ targets[1] = body_block /\ targets[2] = next_block
  OBVIOUS
<1> HIDE DEF targets
<1>17. /\ branch \in Instructions
       /\ branch.kind = "branch"
       /\ branch.targets = targets
       /\ Event(m2, branch) = now
       /\ \A x : x \in MayFollow(body, path, n, k) => Steps(body, branch.point, x)
  BY <1>15, PartOf, SMTT(20)
<1>18. branch.point = now
  BY <1>17 DEF Event
<1>19. MayFollow(body, path, n, k) = {inside, false}
  BY <1>3 DEF MayFollow
<1> HIDE DEF branch, inside, false, now, next_block, body_block, pending, pending1, count
<1>20. \A x \in 1 .. Len(branch.targets) : Steps(body, branch.point, m2[branch.targets[x]])
  <2>0. Len(branch.targets) = 2
    BY <1>16, <1>17
  <2>1. \A x \in 1 .. Len(branch.targets) : x = 1 \/ x = 2
    BY <2>0
  <2> QED BY <1>6, <1>9, <1>16, <1>17, <1>19, <2>1
<1>21. /\ e \in Contexts
       /\ e.blocks = c.blocks
       /\ e.instructions = c.instructions
       /\ e.current_block = c.current_block
       /\ e.block_count = body_block
       /\ e.break_end_block = c.break_end_block
  BY <1>2 DEF Contexts
<1> HIDE DEF e
<1>22. Fine(body, m2, e, pending1, now)
  <2>1. c.block_count <= e.block_count
    BY <1>2, <1>21 DEF count
  <2>2. \A x \in pending1 : x \in pending \/ x \in c.block_count + 1 .. e.block_count
    BY <1>11, <1>21 DEF count
  <2> QED BY <1>10, <1>21, <2>1, <2>2, FineCounters
<1> HIDE DEF pending2
<1>23. /\ Fine(body, m2, d, pending2, m2[body_block])
       /\ Grows(e, d)
       /\ d.break_end_block = e.break_end_block
  BY <1>12, <1>13, <1>17, <1>18, <1>20, <1>22, FineBranchAndChange
<1> HIDE DEF d
<1>24. Grows(context, d)
  BY <1>21, <1>23, SameBlocks DEF Grows
<1>25. /\ t \in Calls
       /\ t.path = path
       /\ t.n = n
       /\ t.end_block = end_block
       /\ t.next_block = next_block
  <2>1. Top \in Calls
    BY TopIsKnown
  <2> QED BY <1>5, <2>1 DEF Calls
<1> HIDE DEF t
<1>26. /\ top.path = path
       /\ top.n = n
       /\ top.within = k
       /\ top.end_block = end_block
       /\ top.next_block = next_block
  BY <1>25 DEF Calls
<1> HIDE DEF top
<1>27. StatementOf(body, top) = Current
  BY <1>3, <1>26 DEF StatementOf, ListOf
<1>28. PendingOf(body, top) = {end_block, next_block}
  BY <1>26, <1>27 DEF PendingOf
<1>29. CallMeans(body, m2, d, top)
  <2>1. next_block = end_block => k = Conditions(Current) /\ ~ HasElse(Current)
    BY <1>2, <1>5, <1>7 DEF IsLast, count
  <2>2. ~ IsLoop(Current)
    BY DEF IsLoop
  <2> QED BY <1>8, <1>9, <1>26, <1>27, <2>1, <2>2 DEF CallMeans, false
<1>30. /\ context.block_count \in Nat
       /\ context.break_end_block \in Nat
       /\ context.break_end_block <= context.block_count
  BY ContextContinues
<1>31. Agree(m, m2, 1 .. context.block_count)
  BY <1>2, <1>6, <1>30, AgreeFurther DEF count
<1>32. BreaksTo(body, m2, d.break_end_block, Within(path, n, k))
  <2>1. ~ IsLoop(StatementsAt(body, path)[n])
    BY <1>3 DEF IsLoop
  <2> QED BY <1>3, <1>21, <1>23, <1>30, <1>31, <2>1, BreaksFromIf
<1>33. Fine(body, m2, d, PendingOfCallers \cup PendingOf(body, top), Comes(body, Within(path, n, k), 1))
  BY <1>6, <1>23, <1>28 DEF pending2, inside
<1>34. \A x \in PendingOf(body, top) : x \notin PendingOfCallers
  BY <1>14, <1>28
<1> QED
  BY <1>1, <1>24, <1>25, <1>29, <1>31, <1>32, <1>33, <1>34, MeansWithin DEF top

(* An if, from its first condition.                                        *)
LEMMA IfMeans ==
  ASSUME Inv, If, NEW m, Means(body, m, stack, context)
  PROVE  StaysMeaningful'
<1> DEFINE end_block == context.block_count + 1
           after == Comes(body, Top.path, Top.n + 1)
           now == Comes(body, Top.path, Top.n)
           c == [context EXCEPT !.block_count = end_block]
           m1 == [x \in Nat |-> IF x = end_block THEN after ELSE m[x]]
           pending == PendingOfCallers \cup {end_block}
<1>1. Begins("if") /\ Begun = context
  BY BeginningIs DEF If
<1>2. Condition(c, 1, end_block, NextScope)
  BY <1>1 DEF If
<1>3. /\ Generating
      /\ Current.kind = "if"
      /\ Top.within = 0
      /\ Good(body, child_scopes, context, PendingOfCallers)
  BY <1>1, BeginningIs DEF Begins
<1>4. context.block_count \in Nat /\ end_block \in Nat /\ context.block_count <= end_block
  BY <1>3, ContextContinues
<1>5. /\ Fine(body, m, context, PendingOfCallers, now)
      /\ BreaksTo(body, m, context.break_end_block, Top.path)
      /\ TargetsKnown(context, PendingOfCallers)
  BY <1>3, MeaningAtBeginning
<1>6. 1 <= Conditions(Current) /\ Conditions(Current) \in Nat
  <2>1. ~ AtEnd
    BY <1>3 DEF Generating
  <2> QED BY <1>3, <2>1, CurrentIsKnown, BodyCountOf
<1>7. now = Point(Top.path, Top.n, 1)
  BY <1>3, CurrentPlace, AtTheStatement
<1>8. Agree(m, m1, 1 .. context.block_count) /\ m1[end_block] = after
  BY <1>4 DEF Agree
<1>9. end_block \notin PendingOfCallers
  BY <1>4, <1>5 DEF Fine
<1>10. end_block \in context.block_count + 1 .. end_block
  BY <1>4
<1> HIDE DEF m1, end_block, now
<1>11. Fine(body, m1, context, PendingOfCallers, now)
  BY <1>5, <1>8, FineMeaning
<1>12. /\ Good(body, child_scopes, c, pending)
       /\ c \in Contexts
       /\ c.instructions = context.instructions
       /\ c.current_block = context.current_block
       /\ c.block_count = end_block
       /\ c.break_end_block = context.break_end_block
  <2>1. PendingOfCallers \subseteq PendingOfCallers \cup {end_block}
    OBVIOUS
  <2> QED BY <1>3, <1>4, <2>1, AllocateStaysGood
<1>13. c.blocks = context.blocks
  BY <1>5 DEF Fine, Contexts
<1> HIDE DEF c
<1>14. Fine(body, m1, c, pending, now)
  <2>1. \A x \in pending : x \in PendingOfCallers \/ x \in context.block_count + 1 .. c.block_count
    BY <1>10, <1>12
  <2>2. context.block_count <= c.block_count
    BY <1>4, <1>12
  <2> HIDE DEF pending
  <2> QED BY <1>11, <1>12, <1>13, <2>1, <2>2, FineCounters
<1>15. TargetsKnown(c, pending) /\ Grows(context, c)
  BY <1>12, <1>13, GrowsByNothing DEF Good
<1>16. PICK k \in Nat : k = 1
  OBVIOUS
<1>17. Fine(body, m1, c, PendingOfCallers \cup {end_block}, Point(Top.path, Top.n, k))
  BY <1>7, <1>14, <1>16
<1>18. context.block_count <= c.block_count
  BY <1>4, <1>12
<1>19. TargetsKnown(c, PendingOfCallers \cup {end_block})
  BY <1>15
<1>20. Condition(c, k, end_block, NextScope) /\ NextScope \in Paths
  BY <1>2, <1>16, NextScopeIsPath
<1>21. k > 0 /\ k <= Conditions(Current)
  BY <1>6, <1>16
<1>22. m1[end_block] = Comes(body, Top.path, Top.n + 1)
  BY <1>8
<1> HIDE DEF after, pending
<1> QED
  BY <1>3, <1>4, <1>5, <1>6, <1>8, <1>9, <1>12, <1>15, <1>17, <1>18, <1>19, <1>20, <1>21, <1>22, ConditionMeans

(* What comes next at the end of a list within a statement.                *)
LEMMA MeaningAfterList ==
  ASSUME Inv, NEW kind \in {"if", "while", "for"}, Resumes(kind)
  PROVE  ComesNow(body, Top) =
           CASE kind = "if"    -> Comes(body, Top.path, Top.n + 1)
             [] kind = "while" -> Point(Top.path, Top.n, 1)
             [] kind = "for"   -> Point(Top.path, Top.n, Increment)
<1> DEFINE path == Top.path
           n == Top.n
           k == Top.within
           length == Len(ListWithin(body, Top))
<1>1. /\ Generating
      /\ Current.kind = kind
      /\ k > 0
      /\ k \in Nat
  BY ResumingIs
<1>2. /\ path \in Paths
      /\ n \in Nat
      /\ Current = StatementsAt(body, path)[n]
  BY <1>1, CurrentPlace
<1>3. length \in Nat
  <2>1. ~ AtEnd
    BY <1>1 DEF Generating
  <2>2. Current \in Statements(Bodies) /\ IsWellFormed(Current) /\ k <= BodyCount(Current)
    BY <2>1, CurrentIsKnown
  <2>3. /\ Conditions(Current) \in Nat
        /\ BodyCount(Current) = IF HasElse(Current) THEN Conditions(Current) + 1 ELSE Conditions(Current)
    BY <2>2, BodyCountOf
  <2>4. BodyOf(Current, k) \in Bodies
    <3>1. CASE k <= Conditions(Current)
      <4>1. k \in 1 .. Len(Current.bodies) /\ Current.bodies \in Seq(Bodies)
        BY <1>1, <2>2, <2>3, <3>1 DEF Conditions, Statements
      <4> QED BY <3>1, <4>1 DEF BodyOf
    <3>2. CASE ~ (k <= Conditions(Current))
      BY <2>2, <3>2 DEF BodyOf, Statements
    <3> QED BY <3>1, <3>2
  <2>5. ListWithin(body, Top) = BodyOf(Current, k)
    <3>1. path \in Seq(Nat \X Nat) /\ <<n, k>> \in Nat \X Nat
      BY <1>1, <1>2 DEF Paths
    <3> HIDE DEF path, n, k
    <3>2. StatementsAt(body, Within(path, n, k)) = BodyOf(Current, k)
      BY <1>2, <3>1, StatementsAtWithin
    <3> QED BY <3>2 DEF ListWithin, path, n, k
  <2> QED BY <2>4, <2>5, StatementsAreTyped
<1>4. ComesNow(body, Top) = Comes(body, Within(path, n, k), length + 1)
  BY <1>1 DEF ComesNow
<1>5. length + 1 \in Nat /\ length + 1 > Len(StatementsAt(body, Within(path, n, k)))
  BY <1>3 DEF ListWithin
<1> HIDE DEF length
<1>6. PICK l \in Nat : l = length + 1
  BY <1>5
<1> QED BY <1>1, <1>2, <1>4, <1>5, <1>6, AfterTheList

(* The next else-if, or the else, begins where its predecessor led to.     *)
LEMMA NextBranchMeans ==
  ASSUME Inv, Resumes("if"), Top.within <= Conditions(Current),
         Top.within < Conditions(Current) \/ HasElse(Current), Conditions(Current) \in Nat,
         NEW m, Means(body, m, stack, context)
  PROVE  LET d == change_block(FinishWithJump(context, Top.end_block), Top.next_block)
         IN  /\ Fine(body, m, d, PendingOfCallers \cup {Top.end_block},
                     WhenFalse(body, Top.path, Top.n, Top.within))
             /\ Grows(context, d)
             /\ d.block_count = context.block_count
             /\ d.break_end_block = context.break_end_block
             /\ m[Top.end_block] = Comes(body, Top.path, Top.n + 1)
             /\ Top.end_block \notin PendingOfCallers
             /\ BreaksTo(body, m, context.break_end_block, Top.path)
<1> DEFINE end_block == Top.end_block
           next_block == Top.next_block
           pending == PendingOfCallers \cup PendingOf(body, Top)
           pending2 == PendingOfCallers \cup {end_block}
           now == ComesNow(body, Top)
<1>1. /\ Generating
      /\ Current.kind = "if"
      /\ Top.within > 0
      /\ Top.within \in Nat
      /\ end_block \in Nat
      /\ StatementOf(body, Top) = Current
  BY ResumingIs, TopIsKnown
<1>2. /\ Fine(body, m, context, pending, now)
      /\ CallMeans(body, m, context, Top)
      /\ ~ LoopCall(body, Top) => BreaksTo(body, m, context.break_end_block, Top.path)
      /\ \A x \in PendingOf(body, Top) : x \notin PendingOfCallers
  BY <1>1, MeaningNow
<1>3. PendingOf(body, Top) = {end_block, next_block}
  BY <1>1 DEF PendingOf
<1>4. /\ m[end_block] = Comes(body, Top.path, Top.n + 1)
      /\ m[next_block] = WhenFalse(body, Top.path, Top.n, Top.within)
      /\ next_block # end_block
  BY <1>1, <1>2 DEF CallMeans
<1>5. BreaksTo(body, m, context.break_end_block, Top.path)
  BY <1>1, <1>2 DEF LoopCall, IsLoop
<1>6. now = m[end_block]
  BY <1>4, MeaningAfterList
<1>7. next_block \in pending /\ end_block \in pending /\ Rest(pending2, pending, next_block)
  BY <1>2, <1>3, <1>4 DEF Rest
<1>8. end_block \notin PendingOfCallers
  BY <1>2, <1>3
<1> DEFINE d == change_block(FinishWithJump(context, end_block), next_block)
<1> HIDE DEF end_block, next_block, pending, pending2, now
<1>9. /\ Fine(body, m, d, pending2, m[next_block])
      /\ Grows(context, d)
      /\ d.block_count = context.block_count
      /\ d.break_end_block = context.break_end_block
  BY <1>1, <1>2, <1>6, <1>7, FineFinishAndChange
<1> QED BY <1>4, <1>5, <1>8, <1>9 DEF end_block, next_block, pending2

(* The next else-if.                                                       *)
LEMMA ElseIfMeans ==
  ASSUME Inv, ElseIf, NEW m, Means(body, m, stack, context)
  PROVE  StaysMeaningful'
<1> DEFINE c == change_block(FinishWithJump(context, Top.end_block), Top.next_block)
           k == Top.within + 1
           pending == PendingOfCallers \cup {Top.end_block}
<1>1. Resumes("if") /\ Top.within < Conditions(Current) /\ Condition(c, k, Top.end_block, Top.if_scope)
  BY DEF ElseIf
<1>2. /\ Generating
      /\ Current.kind = "if"
      /\ Top.within > 0
      /\ Top.within \in Nat
      /\ Top.end_block \in Nat
  BY <1>1, ResumingIs
<1>3. Conditions(Current) \in Nat
  <2>1. ~ AtEnd
    BY <1>2 DEF Generating
  <2> QED BY <2>1, CurrentIsKnown
<1>4. k \in Nat /\ k > 0 /\ k <= Conditions(Current) /\ Top.within <= Conditions(Current)
  BY <1>1, <1>2, <1>3
<1>5. Good(body, child_scopes, c, pending)
  BY <1>1, <1>4, NextBranch
<1>6. /\ Fine(body, m, c, pending, WhenFalse(body, Top.path, Top.n, Top.within))
      /\ Grows(context, c)
      /\ c.block_count = context.block_count
      /\ c.break_end_block = context.break_end_block
      /\ m[Top.end_block] = Comes(body, Top.path, Top.n + 1)
      /\ Top.end_block \notin PendingOfCallers
      /\ BreaksTo(body, m, context.break_end_block, Top.path)
  BY <1>1, <1>3, <1>4, NextBranchMeans
<1>7. WhenFalse(body, Top.path, Top.n, Top.within) = Point(Top.path, Top.n, k)
  <2>1. Current = StatementsAt(body, Top.path)[Top.n]
    BY <1>2, CurrentPlace
  <2> QED BY <1>1, <2>1 DEF WhenFalse
<1> HIDE DEF c, k
<1>8. TargetsKnown(c, pending)
  BY <1>5 DEF Good
<1>9. context.block_count <= c.block_count
  BY <1>2, <1>6, ContextContinues
<1>10. Agree(m, m, 1 .. context.block_count) /\ Top.if_scope \in Paths
  BY TopIsKnown DEF Agree, Calls
<1>11. Fine(body, m, c, PendingOfCallers \cup {Top.end_block}, Point(Top.path, Top.n, k))
  BY <1>6, <1>7
<1> QED
  BY <1>1, <1>2, <1>3, <1>4, <1>6, <1>8, <1>9, <1>10, <1>11, ConditionMeans

(* The else of an if.                                                      *)
LEMMA ElseMeans ==
  ASSUME Inv, Else, NEW m, Means(body, m, stack, context)
  PROVE  StaysMeaningful'
<1> DEFINE d == change_block(FinishWithJump(context, Top.end_block), Top.next_block)
           k == Top.within + 1
           top == [Top EXCEPT !.within = k]
           path == Top.path
           n == Top.n
<1>1. /\ Resumes("if")
      /\ Top.within = Conditions(Current)
      /\ HasElse(Current)
      /\ Commit(TakeScope(d))
      /\ Enter(Top, k, NextScope, NextScope)
  BY DEF Else
<1>2. /\ Generating
      /\ Current.kind = "if"
      /\ Top.within > 0
      /\ Top.within \in Nat
      /\ Top.end_block \in Nat
  BY <1>1, ResumingIs
<1>3. Conditions(Current) \in Nat /\ Top.within <= Conditions(Current)
  BY <1>1, <1>2
<1>4. /\ Fine(body, m, d, PendingOfCallers \cup {Top.end_block}, WhenFalse(body, path, n, Top.within))
      /\ Grows(context, d)
      /\ d.break_end_block = context.break_end_block
      /\ m[Top.end_block] = Comes(body, path, n + 1)
      /\ Top.end_block \notin PendingOfCallers
      /\ BreaksTo(body, m, context.break_end_block, path)
  BY <1>1, <1>3, NextBranchMeans
<1> HIDE DEF d
<1>5. /\ path \in Paths
      /\ n \in Nat
      /\ Current = StatementsAt(body, path)[n]
  BY <1>2, CurrentPlace
<1>6. k \in Nat /\ k > 0 /\ ~ (k <= Conditions(Current)) /\ k = Top.within + 1
  BY <1>1, <1>2, <1>3
<1>7. WhenFalse(body, path, n, Top.within) = Comes(body, Within(path, n, k), 1)
  BY <1>1, <1>2, <1>3, <1>5 DEF WhenFalse
<1> HIDE DEF k
<1>8. Top \in Calls /\ NextScope \in Paths
  BY TopIsKnown, NextScopeIsPath
<1>9. /\ top.path = path
      /\ top.n = n
      /\ top.within = k
      /\ top.end_block = Top.end_block
  BY <1>8 DEF Calls
<1> HIDE DEF top
<1>10. StatementOf(body, top) = Current
  BY <1>5, <1>9 DEF StatementOf, ListOf
<1>11. PendingOf(body, top) = {Top.end_block}
  <2>1. k # 0
    BY <1>6
  <2> QED BY <1>6, <1>9, <1>10, <2>1 DEF PendingOf
<1>12. CallMeans(body, m, d, top)
  BY <1>2, <1>4, <1>6, <1>9, <1>10 DEF CallMeans, IsLoop
<1>13. Agree(m, m, 1 .. context.block_count)
  BY DEF Agree
<1>14. BreaksTo(body, m, d.break_end_block, Within(path, n, k))
  <2>1. /\ context.block_count \in Nat
        /\ context.break_end_block \in Nat
        /\ context.break_end_block <= context.block_count
    BY <1>2, ContextContinues
  <2>2. ~ IsLoop(StatementsAt(body, path)[n])
    BY <1>2, <1>5 DEF IsLoop
  <2> QED BY <1>4, <1>5, <1>6, <1>13, <2>1, <2>2, BreaksFromIf
<1>15. Fine(body, m, d, PendingOfCallers \cup PendingOf(body, top), Comes(body, Within(path, n, k), 1))
  BY <1>4, <1>7, <1>11
<1>16. \A x \in PendingOf(body, top) : x \notin PendingOfCallers
  BY <1>4, <1>11
<1> QED
  BY <1>1, <1>2, <1>4, <1>6, <1>8, <1>12, <1>13, <1>14, <1>15, <1>16, MeansWithin DEF top

(* The last list of an if has no other pending block than its end.         *)
LEMMA LastListIs ==
  ASSUME Inv, Resumes("if"), Top.within = BodyCount(Current)
  PROVE  PendingOf(body, Top) = {Top.end_block}
<1>1. /\ Generating
      /\ Current.kind = "if"
      /\ Top.within > 0
      /\ Top.within \in Nat
  BY ResumingIs
<1>2. ~ AtEnd
  BY <1>1 DEF Generating
<1>3. Conditions(Current) \in Nat
      /\ BodyCount(Current) = IF HasElse(Current) THEN Conditions(Current) + 1 ELSE Conditions(Current)
  BY <1>2, CurrentIsKnown, BodyCountOf
<1>4. BranchesLead(body, Top) /\ StatementOf(body, Top) = Current
  BY <1>1, GeneratingIs, TopIsKnown
<1>5. CASE HasElse(Current)
  BY <1>1, <1>3, <1>4, <1>5 DEF PendingOf
<1>6. CASE ~ HasElse(Current)
  <2>1. Top.next_block = Top.end_block
    BY <1>1, <1>3, <1>4, <1>6 DEF BranchesLead
  <2> QED BY <1>1, <1>3, <1>4, <1>6, <2>1 DEF PendingOf
<1> QED BY <1>5, <1>6

(* The end of an if.                                                       *)
LEMMA EndIfMeans ==
  ASSUME Inv, EndIf, NEW m, Means(body, m, stack, context)
  PROVE  StaysMeaningful'
<1> DEFINE end_block == Top.end_block
           pending == PendingOfCallers \cup PendingOf(body, Top)
           now == ComesNow(body, Top)
           after == Comes(body, Top.path, Top.n + 1)
           d == change_block(FinishWithJump(context, end_block), end_block)
<1>1. /\ Resumes("if")
      /\ Top.within = BodyCount(Current)
      /\ Commit(d)
      /\ Proceed(Top)
  BY DEF EndIf
<1>2. /\ Generating
      /\ Current.kind = "if"
      /\ Top.within > 0
      /\ end_block \in Nat
      /\ StatementOf(body, Top) = Current
  BY <1>1, ResumingIs, TopIsKnown
<1>3. /\ Fine(body, m, context, pending, now)
      /\ CallMeans(body, m, context, Top)
      /\ ~ LoopCall(body, Top) => BreaksTo(body, m, context.break_end_block, Top.path)
      /\ \A x \in PendingOf(body, Top) : x \notin PendingOfCallers
  BY <1>2, MeaningNow
<1>4. PendingOf(body, Top) = {end_block}
  BY <1>1, LastListIs
<1>5. m[end_block] = after /\ now = after
  BY <1>1, <1>2, <1>3, MeaningAfterList DEF CallMeans
<1>6. BreaksTo(body, m, context.break_end_block, Top.path)
  BY <1>2, <1>3 DEF LoopCall, IsLoop
<1>7. end_block \in pending /\ Rest(PendingOfCallers, pending, end_block)
  BY <1>3, <1>4 DEF Rest
<1>8. context' = d /\ UNCHANGED body
  BY <1>1 DEF Commit
<1> HIDE DEF end_block, pending, now, after
<1>9. /\ Fine(body, m, d, PendingOfCallers, m[end_block])
      /\ Grows(context, d)
      /\ d.break_end_block = context.break_end_block
  BY <1>2, <1>3, <1>5, <1>7, FineFinishAndChange
<1> HIDE DEF d
<1>10. Fine(body, m, d, PendingOfCallers, Comes(body, Top.path, Top.n + 1))
  BY <1>5, <1>9 DEF after
<1>11. BreaksTo(body, m, d.break_end_block, Top.path)
  BY <1>6, <1>9
<1> QED BY <1>1, <1>2, <1>8, <1>9, <1>10, <1>11, MeansOn

(* enter_new_block, at the start of a block or not.                        *)
LEMMA FineNewBlock ==
  ASSUME NEW b, NEW m, NEW c, NEW pending, NEW e, Fine(b, m, c, pending, e), IsOpen(c),
         NEW new, new = c.block_count + 1, e = m[new]
  PROVE  LET d == enter_new_block(c)
         IN  /\ Fine(b, m, d, pending, e)
             /\ d.instructions = <<>>
             /\ Grows(c, d)
             /\ c.block_count <= d.block_count
             /\ d.break_end_block = c.break_end_block
             /\ m[d.current_block] = e
<1>1. c \in Contexts /\ c.block_count \in Nat
  BY DEF Fine, Contexts
<1>2. CASE c.instructions = <<>>
  <2>1. enter_new_block(c) = c
    BY <1>2 DEF enter_new_block
  <2>2. m[c.current_block] = e
    BY <1>2 DEF Fine, Flows
  <2>3. Grows(c, c)
    BY DEF Grows
  <2> QED BY <1>1, <1>2, <2>1, <2>2, <2>3
<1>3. CASE c.instructions # <<>>
  <2> DEFINE pending2 == pending \cup {new}
             r == [c EXCEPT !.block_count = new]
             f == FinishWithJump(r, new)
             d == StartBlock(f, new)
  <2>1. /\ new \in Nat
        /\ c.block_count <= new
        /\ \A x \in pending2 : x \in pending \/ x \in c.block_count + 1 .. new
    BY <1>1
  <2>2. new \in pending2 /\ Rest(pending, pending2, new)
    BY <1>1 DEF Fine, Rest
  <2>3. enter_new_block(c) = d
    BY <1>3 DEF enter_new_block
  <2>4. m[new] = e
    OBVIOUS
  <2> HIDE DEF pending2
  <2>5. /\ r \in Contexts
        /\ r.blocks = c.blocks
        /\ r.instructions = c.instructions
        /\ r.current_block = c.current_block
        /\ r.block_count = new
        /\ r.break_end_block = c.break_end_block
    BY <1>1, <2>1 DEF Contexts
  <2> HIDE DEF r
  <2>6. Fine(b, m, r, pending2, e)
    BY <2>1, <2>5, FineCounters
  <2>7. /\ Fine(b, m, f, pending2, e)
        /\ f.blocks = r.blocks
        /\ f.block_count = r.block_count
        /\ f.break_end_block = r.break_end_block
    BY <2>1, <2>2, <2>4, <2>6, FineFinish, SMTT(20)
  <2> HIDE DEF f
  <2>8. /\ Fine(b, m, d, pending, m[new])
        /\ d.instructions = <<>>
        /\ d.current_block = new
        /\ d.block_count = f.block_count
        /\ d.break_end_block = f.break_end_block
        /\ \A x : Anchored(f, x) => Anchored(d, x)
    BY <2>2, <2>7, FineStart
  <2> HIDE DEF d
  <2>9. Grows(c, d)
    <3>1. \A x : Anchored(f, x) <=> Anchored(c, x)
      BY <2>5, <2>7, SameBlocks
    <3> QED BY <2>8, <3>1 DEF Grows
  <2> QED BY <2>1, <2>3, <2>4, <2>5, <2>7, <2>8, <2>9
<1> QED BY <1>2, <1>3

(* The condition of a loop, which is entered in the open block of c.       *)
LEMMA LoopMeans ==
  ASSUME Inv, NEW kind \in {"while", "for"}, Begins(kind), NEW m, Means(body, m, stack, context),
         NEW c, Fine(body, m, c, PendingOfCallers, Point(Top.path, Top.n, 1)),
         TargetsKnown(c, PendingOfCallers), IsOpen(c), c.blocks = context.blocks,
         c.block_count = context.block_count, c.break_end_block = context.break_end_block,
         NEW targets \in Seq(Nat),
         \A i \in 1 .. Len(targets) :
            targets[i] \in {context.block_count + 1, context.block_count + 2},
         Loop(c, targets)
  PROVE  StaysMeaningful'
<1> DEFINE count == context.block_count
           path == Top.path
           n == Top.n
           now == Point(path, n, 1)
           inside == Comes(body, Within(path, n, 1), 1)
           after == Comes(body, path, n + 1)
           end_block == count + 1
           body_block == count + 2
           branch == Instruction("branch", Here(1), targets)
           pending == PendingOfCallers \cup {end_block, body_block}
           pending2 == PendingOfCallers \cup {end_block}
           a == [c EXCEPT !.block_count = body_block]
           condition == enter_new_block(a)
           changed == change_block(Emit(condition, branch), body_block)
           d == [changed EXCEPT !.break_end_block = end_block]
           t == [Top EXCEPT !.end_block = end_block,
                            !.condition_block = condition.current_block,
                            !.old_break_end_block = context.break_end_block]
           top == [t EXCEPT !.within = 1]
           m2 == [x \in Nat |-> IF x = count + 1 THEN after
                                ELSE IF x = count + 2 THEN inside
                                ELSE IF x = count + 3 THEN now ELSE m[x]]
<1>1. Commit(TakeScope(d)) /\ Enter(t, 1, NextScope, NextScope)
  BY DEF Loop
<1>2. /\ Generating
      /\ Current.kind = kind
      /\ Top.within = 0
  BY BeginningIs DEF Begins
<1>3. /\ count \in Nat
      /\ end_block \in Nat
      /\ body_block \in Nat
      /\ count <= body_block
      /\ context.break_end_block \in Nat
      /\ context.break_end_block <= count
  BY <1>2, ContextContinues
<1>4. /\ path \in Paths
      /\ n \in Nat \ {0}
      /\ Current = StatementsAt(body, path)[n]
  BY <1>2, CurrentPlace
<1>5. BreaksTo(body, m, context.break_end_block, path)
  BY <1>2, MeaningAtBeginning
<1>6. /\ Agree(m, m2, 1 .. count)
      /\ m2[end_block] = after
      /\ m2[body_block] = inside
      /\ m2[body_block + 1] = now
  BY <1>3, SMTT(20) DEF Agree
<1>7. \A x \in PendingOfCallers : x \in 1 .. count
  BY DEF Fine
<1>8. \A x \in pending : x \in PendingOfCallers \/ x \in count + 1 .. body_block
  BY <1>3
<1>9. Rest(pending2, pending, body_block) /\ body_block \in pending
  BY <1>3, <1>7 DEF Rest
<1>10. end_block \notin PendingOfCallers
  BY <1>3, <1>7
<1>11. PICK one \in Nat : one = 1
  OBVIOUS
<1>12. /\ branch \in Instructions
       /\ branch.kind = "branch"
       /\ branch.targets = targets
       /\ Event(m2, branch) = now
       /\ \A x : x \in MayFollow(body, path, n, 1) => Steps(body, branch.point, x)
  BY <1>2, PartOf
<1>13. branch.point = now
  BY <1>12 DEF Event
<1>14. MayFollow(body, path, n, 1) = {inside, after}
  BY <1>2, <1>4 DEF MayFollow
<1>15. \A x \in 1 .. Len(targets) : targets[x] = end_block \/ targets[x] = body_block
  OBVIOUS
<1> HIDE DEF m2, branch, now, end_block, body_block, pending, pending2
<1>16. \A x \in 1 .. Len(branch.targets) : Steps(body, branch.point, m2[branch.targets[x]])
  <2> HIDE DEF inside, after
  <2> QED BY <1>6, <1>12, <1>14, <1>15
<1>17. Fine(body, m2, c, PendingOfCallers, now)
  <2>1. Fine(body, m, c, PendingOfCallers, now)
    BY DEF now
  <2> QED BY <1>6, <2>1, FineMeaning
<1>18. c \in Contexts
  BY DEF Fine
<1>19. /\ a \in Contexts
       /\ a.blocks = c.blocks
       /\ a.instructions = c.instructions
       /\ a.current_block = c.current_block
       /\ a.block_count = body_block
       /\ a.break_end_block = c.break_end_block
  BY <1>3, <1>18 DEF Contexts
<1> HIDE DEF a
<1>20. Fine(body, m2, a, pending, now) /\ IsOpen(a)
  <2>1. c.block_count <= a.block_count
    BY <1>3, <1>19
  <2>2. \A x \in pending : x \in PendingOfCallers \/ x \in c.block_count + 1 .. a.block_count
    BY <1>8, <1>19
  <2> QED BY <1>17, <1>19, <2>1, <2>2, FineCounters
<1>21. /\ Fine(body, m2, condition, pending, now)
       /\ condition.instructions = <<>>
       /\ Grows(a, condition)
       /\ m2[condition.current_block] = now
       /\ condition.current_block \in Nat
  <2>1. PICK new : new = a.block_count + 1 /\ now = m2[new]
    BY <1>6, <1>19
  <2>2. /\ Fine(body, m2, condition, pending, now)
        /\ condition.instructions = <<>>
        /\ Grows(a, condition)
        /\ m2[condition.current_block] = now
    BY <1>20, <2>1, FineNewBlock
  <2> HIDE DEF condition
  <2> QED BY <2>2 DEF Fine, Contexts
<1> HIDE DEF condition
<1>22. /\ Fine(body, m2, changed, pending2, m2[body_block])
       /\ Grows(condition, changed)
       /\ Anchored(changed, condition.current_block)
  BY <1>9, <1>12, <1>13, <1>16, <1>21, FineBranchAndChange
<1> HIDE DEF changed
<1>23. changed \in Contexts
  BY <1>22 DEF Fine
<1>24. /\ d \in Contexts
       /\ d.blocks = changed.blocks
       /\ d.instructions = changed.instructions
       /\ d.current_block = changed.current_block
       /\ d.block_count = changed.block_count
       /\ d.break_end_block = end_block
  BY <1>3, <1>23 DEF Contexts, end_block
<1> HIDE DEF d
<1>25. Fine(body, m2, d, pending2, m2[body_block])
  <2>1. changed.block_count <= d.block_count
    BY <1>23, <1>24 DEF Contexts
  <2>2. \A x \in pending2 : x \in pending2 \/ x \in changed.block_count + 1 .. d.block_count
    OBVIOUS
  <2> QED BY <1>22, <1>24, <2>1, <2>2, FineCounters
<1>26. Grows(context, d) /\ Anchored(d, condition.current_block)
  <2>1. \A x : Anchored(d, x) <=> Anchored(changed, x)
    BY <1>24, SameBlocks
  <2>2. \A x : Anchored(a, x) <=> Anchored(context, x)
    BY <1>19, SameBlocks
  <2> QED BY <1>21, <1>22, <2>1, <2>2 DEF Grows
<1>27. /\ t \in Calls
       /\ t.path = path
       /\ t.n = n
       /\ t.end_block = end_block
       /\ t.condition_block = condition.current_block
       /\ t.old_break_end_block = context.break_end_block
  <2>1. Top \in Calls
    BY TopIsKnown
  <2> QED BY <1>3, <1>21, <2>1 DEF Calls, end_block
<1> HIDE DEF t
<1>28. /\ top.path = path
       /\ top.n = n
       /\ top.within = 1
       /\ top.end_block = end_block
       /\ top.condition_block = condition.current_block
       /\ top.old_break_end_block = context.break_end_block
  BY <1>27 DEF Calls
<1>29. top = [t EXCEPT !.within = one] /\ Enter(t, one, NextScope, NextScope)
  BY <1>1, <1>11
<1> HIDE DEF top
<1>30. StatementOf(body, top) = Current
  BY <1>4, <1>28 DEF StatementOf, ListOf
<1>31. PendingOf(body, top) = {end_block}
  BY <1>2, <1>28, <1>30 DEF PendingOf
<1>32. BreaksTo(body, m2, context.break_end_block, path)
  <2>1. context.break_end_block # 0 => m2[context.break_end_block] = m[context.break_end_block]
    BY <1>3, <1>6 DEF Agree
  <2> QED BY <1>5, <2>1 DEF BreaksTo
<1>33. CallMeans(body, m2, d, top)
  BY <1>2, <1>6, <1>21, <1>26, <1>28, <1>30, <1>32 DEF CallMeans, now
<1>34. BreaksTo(body, m2, d.break_end_block, Within(path, n, one))
  <2>1. IsLoop(StatementsAt(body, path)[n])
    BY <1>2, <1>4 DEF IsLoop
  <2>2. /\ Structured!Loops(body, Within(path, n, one)) # {}
        /\ BreakTo(body, Within(path, n, one)) = after
    BY <1>4, <2>1, BreakFromWithin
  <2> HIDE DEF after
  <2> QED BY <1>6, <1>24, <2>2 DEF BreaksTo
<1>35. Fine(body, m2, d, PendingOfCallers \cup PendingOf(body, top), Comes(body, Within(path, n, one), 1))
  BY <1>6, <1>11, <1>25, <1>31 DEF pending2
<1>36. \A x \in PendingOf(body, top) : x \notin PendingOfCallers
  BY <1>10, <1>31
<1>37. NextScope \in Paths
  BY NextScopeIsPath
<1> QED
  BY <1>1, <1>2, <1>6, <1>26, <1>27, <1>29, <1>33, <1>34, <1>35, <1>36, <1>37, MeansWithin

(* A while.                                                                *)
LEMMA WhileMeans ==
  ASSUME Inv, While, NEW m, Means(body, m, stack, context)
  PROVE  StaysMeaningful'
<1> DEFINE count == context.block_count
           targets == <<count + 2, count + 1>>
<1>1. Begins("while") /\ Begun = context
  BY BeginningIs DEF While
<1>2. Loop(context, targets)
  BY <1>1 DEF While
<1>3. /\ Generating
      /\ Current.kind = "while"
      /\ Top.within = 0
      /\ IsOpen(context)
  BY <1>1, BeginningIs DEF Begins
<1>4. count \in Nat
  BY <1>3, ContextContinues
<1>5. /\ targets \in Seq(Nat)
      /\ \A i \in 1 .. Len(targets) : targets[i] \in {context.block_count + 1, context.block_count + 2}
  BY <1>4
<1> HIDE DEF targets
<1>6. Comes(body, Top.path, Top.n) = Point(Top.path, Top.n, 1)
  BY <1>3, CurrentPlace, AtTheStatement
<1>7. /\ Fine(body, m, context, PendingOfCallers, Point(Top.path, Top.n, 1))
      /\ TargetsKnown(context, PendingOfCallers)
  BY <1>3, <1>6, MeaningAtBeginning
<1> QED BY <1>1, <1>2, <1>3, <1>5, <1>7, LoopMeans

(* A for.                                                                  *)
LEMMA ForMeans ==
  ASSUME Inv, For, NEW m, Means(body, m, stack, context)
  PROVE  StaysMeaningful'
<1> DEFINE count == context.block_count
           targets == <<count + 1, count + 2>>
           i == Instruction("other", Here(0), <<>>)
           c == Emit(context, i)
           now == Point(Top.path, Top.n, 1)
<1>1. Begins("for") /\ Begun = context
  BY BeginningIs DEF For
<1>2. Loop(c, targets)
  BY <1>1 DEF For
<1>3. /\ Generating
      /\ Current.kind = "for"
      /\ Top.within = 0
      /\ IsOpen(context)
  BY <1>1, BeginningIs DEF Begins
<1>4. count \in Nat
  BY <1>3, ContextContinues
<1>5. /\ targets \in Seq(Nat)
      /\ \A k \in 1 .. Len(targets) : targets[k] \in {context.block_count + 1, context.block_count + 2}
  BY <1>4
<1>6. /\ i \in Instructions
      /\ i.kind = "other"
      /\ i.targets = <<>>
      /\ Event(m, i) = Point(Top.path, Top.n, 0)
      /\ \A x : x \in MayFollow(body, Top.path, Top.n, 0) => Steps(body, i.point, x)
  BY <1>3, PlainPart
<1> HIDE DEF i, targets
<1>7. LeadTo(<<i>>, PendingOfCallers)
  BY <1>6 DEF LeadTo
<1>8. Good(body, child_scopes, c, PendingOfCallers) /\ IsOpen(c)
  BY <1>1, <1>6, <1>7, EmitsAtBeginning DEF Terminators
<1>9. Comes(body, Top.path, Top.n) = Point(Top.path, Top.n, 0)
  BY <1>3, CurrentPlace, AtTheStatement
<1>10. now \in MayFollow(body, Top.path, Top.n, 0)
  BY <1>3, CurrentPlace DEF MayFollow
<1> HIDE DEF now
<1>11. Right(body, m, i, now)
  BY <1>6, <1>10 DEF Right
<1>12. Fine(body, m, context, PendingOfCallers, Comes(body, Top.path, Top.n))
  BY <1>3, MeaningAtBeginning
<1>13. Fine(body, m, c, PendingOfCallers, now)
  BY <1>6, <1>9, <1>11, <1>12, FineEmit
<1>14. /\ c.blocks = context.blocks
       /\ c.block_count = context.block_count
       /\ c.break_end_block = context.break_end_block
  BY <1>6, <1>12, EmitIs DEF Fine
<1> HIDE DEF c
<1>15. TargetsKnown(c, PendingOfCallers)
  BY <1>8 DEF Good
<1> QED BY <1>1, <1>2, <1>5, <1>8, <1>13, <1>14, <1>15, LoopMeans DEF now

(* What is known of the meaning at the end of the list of a loop, when the *)
(* break target is the one from before the loop again.                     *)
LEMMA MeaningAfterLoop ==
  ASSUME Inv, NEW kind \in {"while", "for"}, Resumes(kind), NEW m, Means(body, m, stack, context)
  PROVE  LET c == OldBreakTarget(context)
         IN  /\ Fine(body, m, c, PendingOfCallers \cup {Top.end_block}, ComesNow(body, Top))
             /\ c.blocks = context.blocks
             /\ c.break_end_block = Top.old_break_end_block
             /\ Top.end_block \in Nat
             /\ Top.end_block \notin PendingOfCallers
             /\ Top.condition_block \in Nat
             /\ m[Top.end_block] = Comes(body, Top.path, Top.n + 1)
             /\ m[Top.condition_block] = Point(Top.path, Top.n, 1)
             /\ Anchored(context, Top.condition_block)
             /\ BreaksTo(body, m, Top.old_break_end_block, Top.path)
<1> DEFINE pending == PendingOfCallers \cup {Top.end_block}
           c == [context EXCEPT !.break_end_block = Top.old_break_end_block]
           now == ComesNow(body, Top)
<1>1. /\ Generating
      /\ Current.kind = kind
      /\ Top.within > 0
  BY ResumingIs
<1>2. /\ Top \in Calls
      /\ StatementOf(body, Top) = Current
      /\ Top.old_break_end_block \in Nat
      /\ Top.condition_block \in Nat
      /\ Top.end_block \in Nat
  BY TopIsKnown DEF Calls
<1>3. PendingOf(body, Top) = {Top.end_block}
  BY <1>1, <1>2, PendingBlocks
<1>4. /\ Fine(body, m, context, PendingOfCallers \cup PendingOf(body, Top), now)
      /\ CallMeans(body, m, context, Top)
      /\ \A x \in PendingOf(body, Top) : x \notin PendingOfCallers
  BY <1>1, MeaningNow
<1>5. IsLoop(StatementOf(body, Top))
  BY <1>1, <1>2 DEF IsLoop
<1>6. /\ m[Top.end_block] = Comes(body, Top.path, Top.n + 1)
      /\ m[Top.condition_block] = Point(Top.path, Top.n, 1)
      /\ Anchored(context, Top.condition_block)
      /\ BreaksTo(body, m, Top.old_break_end_block, Top.path)
  BY <1>1, <1>4, <1>5 DEF CallMeans
<1>7. Fine(body, m, context, pending, now) /\ Top.end_block \notin PendingOfCallers
  BY <1>3, <1>4
<1> HIDE DEF pending, now
<1>8. /\ c \in Contexts
      /\ c.blocks = context.blocks
      /\ c.instructions = context.instructions
      /\ c.current_block = context.current_block
      /\ c.block_count = context.block_count
      /\ c.break_end_block = Top.old_break_end_block
  <2>1. context \in Contexts
    BY <1>7 DEF Fine
  <2> QED BY <1>2, <2>1 DEF Contexts
<1> HIDE DEF c
<1>9. Fine(body, m, c, pending, now)
  <2>1. context.block_count <= c.block_count
    BY <1>1, <1>8, ContextContinues
  <2>2. \A x \in pending : x \in pending \/ x \in context.block_count + 1 .. c.block_count
    OBVIOUS
  <2> QED BY <1>7, <1>8, <2>1, <2>2, FineCounters
<1> QED BY <1>2, <1>6, <1>7, <1>8, <1>9 DEF OldBreakTarget, c, pending, now

(* The loop goes back to its condition, and its end begins.                *)
LEMMA EndLoopMeans ==
  ASSUME Inv, NEW kind \in {"while", "for"}, Resumes(kind), NEW m, Means(body, m, stack, context),
         NEW c, Fine(body, m, c, PendingOfCallers \cup {Top.end_block}, Point(Top.path, Top.n, 1)),
         c.blocks = context.blocks, c.break_end_block = Top.old_break_end_block,
         Commit(change_block(FinishWithJump(c, Top.condition_block), Top.end_block)),
         Proceed(Top)
  PROVE  StaysMeaningful'
<1> DEFINE pending == PendingOfCallers \cup {Top.end_block}
           now == Point(Top.path, Top.n, 1)
           d == change_block(FinishWithJump(c, Top.condition_block), Top.end_block)
<1>1. /\ Top.end_block \in Nat
      /\ Top.end_block \notin PendingOfCallers
      /\ Top.condition_block \in Nat
      /\ m[Top.end_block] = Comes(body, Top.path, Top.n + 1)
      /\ m[Top.condition_block] = now
      /\ Anchored(context, Top.condition_block)
      /\ BreaksTo(body, m, Top.old_break_end_block, Top.path)
  BY MeaningAfterLoop
<1>2. Fine(body, m, c, pending, now)
  OBVIOUS
<1>3. Rest(PendingOfCallers, pending, Top.end_block) /\ Top.end_block \in pending
  BY <1>1 DEF Rest
<1>4. Generating /\ context' = d /\ UNCHANGED body
  BY DEF Resumes, Commit
<1> HIDE DEF pending, now
<1>5. Anchored(c, Top.condition_block)
  BY <1>1, SameBlocks
<1>6. /\ Fine(body, m, d, PendingOfCallers, m[Top.end_block])
      /\ Grows(c, d)
      /\ d.break_end_block = c.break_end_block
  BY <1>1, <1>2, <1>3, <1>5, FineFinishAndChange
<1> HIDE DEF d
<1>7. Grows(context, d)
  BY <1>6, SameBlocks DEF Grows
<1>8. Fine(body, m, d, PendingOfCallers, Comes(body, Top.path, Top.n + 1))
  BY <1>1, <1>6
<1>9. BreaksTo(body, m, d.break_end_block, Top.path)
  BY <1>1, <1>6
<1> QED BY <1>4, <1>7, <1>8, <1>9, MeansOn

(* The end of a while.                                                     *)
LEMMA EndWhileMeans ==
  ASSUME Inv, EndWhile, NEW m, Means(body, m, stack, context)
  PROVE  StaysMeaningful'
<1> DEFINE c == OldBreakTarget(context)
<1>1. /\ Resumes("while")
      /\ Commit(change_block(FinishWithJump(c, Top.condition_block), Top.end_block))
      /\ Proceed(Top)
  BY DEF EndWhile
<1>2. /\ Fine(body, m, c, PendingOfCallers \cup {Top.end_block}, ComesNow(body, Top))
      /\ c.blocks = context.blocks
      /\ c.break_end_block = Top.old_break_end_block
  BY <1>1, MeaningAfterLoop
<1>3. ComesNow(body, Top) = Point(Top.path, Top.n, 1)
  BY <1>1, MeaningAfterList
<1> HIDE DEF c
<1> QED BY <1>1, <1>2, <1>3, EndLoopMeans

(* The end of a for.                                                       *)
LEMMA EndForMeans ==
  ASSUME Inv, EndFor, NEW m, Means(body, m, stack, context)
  PROVE  StaysMeaningful'
<1> DEFINE c == OldBreakTarget(context)
           i == Instruction("other", Here(Increment), <<>>)
           e == Emit(c, i)
           pending == PendingOfCallers \cup {Top.end_block}
           now == Point(Top.path, Top.n, 1)
<1>1. /\ Resumes("for")
      /\ Commit(change_block(FinishWithJump(e, Top.condition_block), Top.end_block))
      /\ Proceed(Top)
  BY DEF EndFor
<1>2. /\ Fine(body, m, c, pending, ComesNow(body, Top))
      /\ c.blocks = context.blocks
      /\ c.break_end_block = Top.old_break_end_block
  BY <1>1, MeaningAfterLoop
<1>3. ComesNow(body, Top) = Point(Top.path, Top.n, Increment)
  BY <1>1, MeaningAfterList
<1>4. Generating /\ Current.kind = "for"
  BY <1>1 DEF Resumes
<1>5. Increment \in Int /\ Increment # 1
  BY DEF Increment
<1>6. /\ i \in Instructions
      /\ i.kind = "other"
      /\ i.targets = <<>>
      /\ Event(m, i) = Point(Top.path, Top.n, Increment)
      /\ \A x : x \in MayFollow(body, Top.path, Top.n, Increment) => Steps(body, i.point, x)
  BY <1>4, <1>5, PlainPart
<1>7. now \in MayFollow(body, Top.path, Top.n, Increment)
  BY <1>4, <1>5, CurrentPlace DEF MayFollow
<1> HIDE DEF c, i, pending, now
<1>8. Right(body, m, i, now)
  BY <1>6, <1>7 DEF Right
<1>9. Fine(body, m, e, pending, now)
  BY <1>2, <1>3, <1>6, <1>8, FineEmit
<1>10. e.blocks = c.blocks /\ e.break_end_block = c.break_end_block
  BY <1>2, <1>6, EmitIs DEF Fine
<1> HIDE DEF e
<1>11. Fine(body, m, e, PendingOfCallers \cup {Top.end_block}, Point(Top.path, Top.n, 1))
  BY <1>9 DEF pending, now
<1> QED BY <1>1, <1>2, <1>10, <1>11, EndLoopMeans

(***************************************************************************)
(* The end of the function                                                 *)
(***************************************************************************)

(* All of the blocks do what the statements say, and the first is where    *)
(* they begin.                                                             *)
Complete(b, m, c) ==
    /\ BlocksMean(b, m, c)
    /\ m[1] = Comes(b, <<>>, 1)
    /\ Len(c.blocks) > 0
    /\ c.blocks[1].block = 1

(* The last block is handed over with the others.                          *)
LEMMA CompleteAtLast ==
  ASSUME NEW b, NEW m, NEW c, NEW e, Fine(b, m, c, {}, e), m[1] = Comes(b, <<>>, 1),
         NEW d, d.blocks = Finished(c)
  PROVE  Complete(b, m, d)
<1>1. c \in Contexts /\ c.block_count \in Nat
  BY DEF Fine, Contexts
<1>2. PICK new \in Nat : new = c.block_count + 1
  BY <1>1
<1> DEFINE f == [c EXCEPT !.block_count = new]
<1>3. /\ f \in Contexts
      /\ f.blocks = c.blocks
      /\ f.instructions = c.instructions
      /\ f.current_block = c.current_block
      /\ f.block_count = new
  BY <1>1, <1>2 DEF Contexts
<1> HIDE DEF f
<1>4. PICK pending : pending = {new}
  OBVIOUS
<1>5. Fine(b, m, f, pending, e)
  <2>1. c.block_count <= f.block_count /\ \A x \in pending : x \in c.block_count + 1 .. f.block_count
    BY <1>1, <1>2, <1>3, <1>4
  <2>2. PICK none : none = {}
    OBVIOUS
  <2>3. Fine(b, m, c, none, e)
    BY <2>2
  <2>4. \A x \in pending : x \in none \/ x \in c.block_count + 1 .. f.block_count
    BY <2>1
  <2> QED BY <1>3, <2>1, <2>3, <2>4, FineCounters
<1> DEFINE g == StartBlock(f, new)
<1>6. Fine(b, m, g, {}, m[new])
  <2>1. new \in pending
    BY <1>4
  <2>2. PICK none : none = {}
    OBVIOUS
  <2>3. Rest(none, pending, new)
    BY <2>2 DEF Rest
  <2> QED BY <1>5, <2>1, <2>2, <2>3, FineStart
<1>7. g.blocks = Finished(c)
  <2>1. Finished(f) = Finished(c)
    BY <1>3 DEF Finished
  <2> DEFINE all == Finished(c)
  <2>2. g = [f EXCEPT !.blocks = all, !.current_block = new, !.instructions = <<>>]
    BY <2>1 DEF StartBlock
  <2> HIDE DEF all, g
  <2>3. g.blocks = all
    BY <1>3, <2>2 DEF Contexts
  <2> QED BY <2>3 DEF all
<1> HIDE DEF g
<1>8. BlocksMean(b, m, d)
  <2>1. d.blocks = g.blocks
    BY <1>7
  <2> QED BY <1>6, <2>1, SameBlocks DEF Fine
<1>9. Len(d.blocks) = Len(c.blocks) + 1 /\ Len(c.blocks) \in Nat
  BY <1>1, FinishedBlocks
<1>10. d.blocks[1].block = 1
  <2>1. g.blocks[1].block = 1
    BY <1>6, <1>7, <1>9 DEF Fine
  <2> QED BY <1>7, <2>1
<1> QED BY <1>8, <1>9, <1>10 DEF Complete

(* At the end of the body, where nothing is left but to return.            *)
LEMMA EndFunctionMeans ==
  ASSUME Inv, EndFunction, NEW m, Means(body, m, stack, context)
  PROVE  Complete(body, m, context')
<1> DEFINE i == Instruction("return", End, <<>>)
           returned == IF has_return_at_end(body) THEN context ELSE Emit(context, i)
           checked == Assert(ScopesTaken, returned)
<1>1. /\ EndsGeneration
      /\ context' = [checked EXCEPT !.blocks = Finished(checked)]
  BY DEF EndFunction
<1>2. pc = "generate" /\ Top.within = 0 /\ Top.n > Len(List) /\ Len(stack) = 1
  BY <1>1 DEF EndsGeneration, AtEnd
<1>3. /\ Top = TopOf(stack)
      /\ Top.n \in Nat
      /\ List = StatementsAt(body, Top.path)
      /\ stack \in Seq(Calls)
      /\ Top \in Calls
  BY TopIsKnown DEF List
<1>4. Top.path = <<>>
  BY <1>2 DEF Inv, CallsNest, Top
<1>5. Pending(body, stack) = {}
  <2>1. PendingOf(body, stack[1]) = {}
    BY <1>2, <1>3, PendingBlocks DEF TopOf
  <2> QED BY <1>2, <2>1 DEF Pending, PendingOfFirst
<1>6. ComesNow(body, TopOf(stack)) = End
  <2>1. ComesNow(body, Top) = Comes(body, <<>>, Top.n)
    BY <1>2, <1>4 DEF ComesNow
  <2>2. Top.n > Len(StatementsAt(body, <<>>))
    BY <1>2, <1>3, <1>4
  <2> QED BY <1>3, <2>1, <2>2, AfterTheBody
<1>7. PICK none : none = {}
  OBVIOUS
<1>8. Fine(body, m, context, none, End) /\ m[1] = Comes(body, <<>>, 1)
  BY <1>5, <1>6, <1>7 DEF Means
<1>9. /\ i \in Instructions
      /\ i.kind = "return"
      /\ i.point = End
  <2> DEFINE nothing == <<>>
  <2>1. nothing \in Seq(Nat) /\ nothing \in Paths
    BY DEF Paths
  <2>2. End \in Points
    BY <2>1 DEF End, Point, Points
  <2>3. i = [kind |-> "return", point |-> End, targets |-> nothing]
    BY DEF Instruction
  <2> HIDE DEF nothing
  <2> QED BY <2>1, <2>2, <2>3 DEF Instructions
<1> HIDE DEF i
<1>10. Fine(body, m, returned, none, End)
  <2>1. CASE has_return_at_end(body)
    BY <1>8, <2>1
  <2>2. CASE ~ has_return_at_end(body)
    <3>1. returned = Emit(context, i)
      BY <2>2
    <3>2. Event(m, i) = End
      BY <1>9 DEF Event
    <3>3. Right(body, m, i, End)
      BY <1>9 DEF Right, Steps
    <3>4. Fine(body, m, Emit(context, i), none, End)
      BY <1>8, <1>9, <3>2, <3>3, FineEmit
    <3> QED BY <3>1, <3>4
  <2> QED BY <2>1, <2>2
<1> HIDE DEF returned
<1>11. checked = returned
  <2>1. ScopesTaken /\ ScopesTaken \in BOOLEAN
    BY <1>1, EndIs DEF ScopesTaken
  <2> QED BY <1>10, <2>1, AssertThatHolds DEF Fine
<1> HIDE DEF checked
<1>12. context'.blocks = Finished(returned)
  <2> DEFINE all == Finished(returned)
  <2>1. context' = [returned EXCEPT !.blocks = all]
    BY <1>1, <1>11
  <2> HIDE DEF all
  <2>2. returned \in Contexts
    BY <1>10 DEF Fine
  <2>3. context'.blocks = all
    BY <2>1, <2>2 DEF Contexts
  <2> QED BY <2>3 DEF all
<1> QED BY <1>7, <1>8, <1>10, <1>12, CompleteAtLast

(***************************************************************************)
(* The other steps of the generator                                        *)
(***************************************************************************)

(* It returns from a list.                                                 *)
LEMMA LeaveListMeans ==
  ASSUME Inv, pc = "generate", LeaveList, NEW m, Means(body, m, stack, context)
  PROVE  StaysMeaningful'
<1>1. /\ Top.within = 0 /\ Top.n > Len(List)
      /\ Len(stack) > 1
      /\ stack' = Callers
      /\ UNCHANGED <<body, context>>
  BY DEF LeaveList, AtEnd
<1>2. Top = TopOf(stack) /\ List = ListOf(body, Top) /\ Callers = CallersOf(stack)
      /\ Len(List) \in Nat /\ Top.n \in Nat
  BY TopIsKnown
<1>3. ~ (TopOf(stack).n <= Len(ListOf(body, TopOf(stack))))
  BY <1>1, <1>2
<1>4. GeneratorInv(body, child_scopes, stack, context)
  BY DEF Inv
<1>5. Means(body, m, CallersOf(stack), context)
  BY <1>1, <1>2, <1>3, <1>4, LeavingMeans
<1> QED BY <1>1, <1>2, <1>5 DEF StaysMeaningful

(* It begins.                                                              *)
LEMMA BeginsMeaningful ==
  ASSUME stack' = <<FirstCall>>, context' = NewContext
  PROVE  StaysMeaningful'
<1>1. PICK m : Means(body', m, <<FirstCall>>, NewContext)
  BY MeaningBegins
<1> QED BY <1>1 DEF StaysMeaningful

(* Wherever it goes on, the blocks mean something.                         *)
LEMMA GeneratorMeans ==
  ASSUME Inv, Next, pc' = "generate", pc = "generate" => StaysMeaningful
  PROVE  StaysMeaningful'
<1>1. CASE pc = "generate" /\ GenerateStatement
  <2>1. PICK m : Means(body, m, stack, context)
    BY <1>1 DEF StaysMeaningful
  <2>2. ~ UnreachableCode /\ ~ TypeError /\ ~ NoCase /\ ~ BreakOutsideLoop
    BY DEF UnreachableCode, TypeError, NoCase, BreakOutsideLoop, Reject
  <2>3. CASE StartOver
    BY <2>3, BeginsMeaningful DEF StartOver
  <2> QED
    BY <1>1, <2>1, <2>2, <2>3, DeclarationMeans, EffectMeans, NothingMeans, ReturnMeans, BreakMeans,
       IfMeans, ElseIfMeans, ElseMeans, EndIfMeans, WhileMeans, EndWhileMeans, ForMeans, EndForMeans
       DEF GenerateStatement
<1>2. CASE pc = "generate" /\ LeaveList
  <2>1. PICK m : Means(body, m, stack, context)
    BY <1>2 DEF StaysMeaningful
  <2> QED BY <1>2, <2>1, LeaveListMeans
<1>3. CASE ScopesProcessed
  <2>1. stack' = <<FirstCall>> /\ context' = NewContext
    BY <1>3 DEF ScopesProcessed, Inv
  <2> QED BY <2>1, BeginsMeaningful
<1>4. CASE Stopped
  <2>1. pc' = pc /\ pc # "generate"
    BY <1>4 DEF Stopped, vars
  <2> QED BY <2>1
<1>5. pc = "generate" => ~ EnterScope /\ ~ LeaveStatement /\ ~ Backend /\ ~ Run
  BY DEF EnterScope, LeaveStatement, Backend, Run
<1>6. ~ MissingReturn /\ ~ EndFunction
  BY DEF MissingReturn, Reject, EndFunction
<1>7. pc # "generate" => ~ GenerateStatement
  BY DEF GenerateStatement, Declaration, UnreachableCode, TypeError, StartOver, Effect, Nothing, NoCase,
     Return, Break, BreakOutsideLoop, If, ElseIf, Else, EndIf, While, EndWhile, For, EndFor,
     Begins, Evaluates, Resumes, Generating
<1>8. pc # "generate" => ~ EnterScope /\ ~ LeaveStatement /\ ~ LeaveList /\ ~ Backend /\ ~ Run
  BY DEF EnterScope, LeaveStatement, LeaveList, Backend, Run
<1> QED BY <1>1, <1>2, <1>3, <1>4, <1>5, <1>6, <1>7, <1>8 DEF Next

(***************************************************************************)
(* What happens next in the blocks                                         *)
(***************************************************************************)

(* The code of a context c, as the backend looks it up.                    *)
CodeOf(c, block) ==
    c.blocks[CHOOSE n \in DOMAIN c.blocks : c.blocks[n].block = block].instructions

PlacesOf(c) ==
    UNION {{block} \X DOMAIN CodeOf(c, block) : block \in {c.blocks[n].block : n \in DOMAIN c.blocks}}

InstructionAt(c, place) == CodeOf(c, place[1])[place[2]]

(* What AfterJumps says of the context, up to N jumps.                     *)
OneMore(c, f, n) ==
    [place \in PlacesOf(c) |->
        IF InstructionAt(c, place).kind = "jump" /\ n > 0
          THEN f[n - 1][<<InstructionAt(c, place).targets[1], 1>>]
          ELSE InstructionAt(c, place).point]

IsAftermath(c, f, N) == f = [n \in 0 .. N |-> OneMore(c, f, n)]

Aftermath(c) == CHOOSE f : IsAftermath(c, f, Len(c.blocks))

(* It is what AfterJumps says.                                             *)
LEMMA AfterJumpsIs ==
  AfterJumps = Aftermath(context)
BY DEF AfterJumps, Aftermath, IsAftermath, OneMore, InstructionAt, PlacesOf, CodeOf, CodePlaces, Emitted, Code

(* It stays so while the blocks do.                                        *)
LEMMA AfterJumpsStays ==
  ASSUME UNCHANGED context
  PROVE  AfterJumps' = Aftermath(context)
BY DEF AfterJumps, Aftermath, IsAftermath, OneMore, InstructionAt, PlacesOf, CodeOf, CodePlaces, Emitted, Code

(* There is such a function.                                               *)
LEMMA AftermathExists ==
  ASSUME NEW c, NEW N \in Nat
  PROVE  \E f : IsAftermath(c, f, N)
<1> DEFINE U == {n \in Nat : \E f : f = [m \in 0 .. n |-> OneMore(c, f, m)]}
<1>1. 0 \in U
  <2> DEFINE none == [m \in {} |-> m]
             first == [m \in 0 .. 0 |-> OneMore(c, none, 0)]
  <2>1. OneMore(c, first, 0) = OneMore(c, none, 0)
    BY DEF OneMore
  <2>2. first[0] = OneMore(c, none, 0)
    OBVIOUS
  <2>3. \A m \in 0 .. 0 : first[m] = OneMore(c, first, m)
    <3>1. \A m \in 0 .. 0 : m = 0
      OBVIOUS
    <3> HIDE DEF first, none
    <3> QED BY <2>1, <2>2, <3>1
  <2>4. first = [m \in 0 .. 0 |-> first[m]]
    OBVIOUS
  <2> HIDE DEF first
  <2>5. first = [m \in 0 .. 0 |-> OneMore(c, first, m)]
    BY <2>3, <2>4
  <2> QED BY <2>5
<1>2. ASSUME NEW n \in U
      PROVE  n + 1 \in U
  <2>1. PICK f : f = [m \in 0 .. n |-> OneMore(c, f, m)]
    OBVIOUS
  <2> DEFINE next == OneMore(c, f, n + 1)
             longer == [m \in 0 .. n + 1 |-> IF m <= n THEN f[m] ELSE next]
  <2>2. ASSUME NEW m \in 0 .. n + 1
        PROVE  longer[m] = OneMore(c, longer, m)
    <3>1. m > 0 => longer[m - 1] = f[m - 1]
      OBVIOUS
    <3> HIDE DEF longer
    <3>2. OneMore(c, longer, m) = OneMore(c, f, m)
      <4>1. CASE m > 0
        BY <3>1, <4>1 DEF OneMore
      <4>2. CASE ~ (m > 0)
        BY <4>2 DEF OneMore
      <4> QED BY <4>1, <4>2
    <3>3. CASE m <= n
      <4>1. m \in 0 .. n /\ longer[m] = f[m]
        BY <3>3 DEF longer
      <4>2. f[m] = OneMore(c, f, m)
        BY <2>1, <4>1, Zenon
      <4> QED BY <3>2, <4>1, <4>2
    <3>4. CASE m = n + 1
      <4>1. longer[m] = next
        BY <3>4 DEF longer
      <4> QED BY <3>2, <3>4, <4>1
    <3> QED BY <3>3, <3>4
  <2>3. longer = [m \in 0 .. n + 1 |-> longer[m]]
    OBVIOUS
  <2> HIDE DEF longer
  <2>4. longer = [m \in 0 .. n + 1 |-> OneMore(c, longer, m)]
    BY <2>2, <2>3
  <2> QED BY <2>4
<1>3. N \in U
  <2>1. U \in SUBSET Nat
    OBVIOUS
  <2> HIDE DEF U
  <2> QED BY <1>1, <1>2, <2>1, NaturalInduction
<1> QED BY <1>3 DEF IsAftermath

(* It says what the instruction does, or where a jump leads to.            *)
LEMMA AftermathIs ==
  ASSUME NEW c, NEW N \in Nat, Len(c.blocks) = N, NEW place \in PlacesOf(c), NEW n \in 0 .. N
  PROVE  LET i == InstructionAt(c, place)
         IN  Aftermath(c)[n][place] = IF i.kind = "jump" /\ n > 0
                                        THEN Aftermath(c)[n - 1][<<i.targets[1], 1>>]
                                        ELSE i.point
<1> DEFINE f == Aftermath(c)
<1>1. IsAftermath(c, f, N)
  <2>1. \E g : IsAftermath(c, g, Len(c.blocks))
    BY AftermathExists
  <2> QED BY <2>1 DEF Aftermath
<1> HIDE DEF f
<1>2. f[n] = OneMore(c, f, n)
  BY <1>1, Zenon DEF IsAftermath
<1>3. f[n][place] = IF InstructionAt(c, place).kind = "jump" /\ n > 0
                      THEN f[n - 1][<<InstructionAt(c, place).targets[1], 1>>]
                      ELSE InstructionAt(c, place).point
  BY <1>2 DEF OneMore
<1> QED BY <1>3 DEF f

(* The places are those of the instructions of the blocks.                 *)
LEMMA PlacesOfBlocks ==
  ASSUME NEW c \in Contexts, Distinct(c)
  PROVE  /\ \A n \in 1 .. Len(c.blocks) : \A k \in 1 .. Len(c.blocks[n].instructions) :
               /\ <<c.blocks[n].block, k>> \in PlacesOf(c)
               /\ InstructionAt(c, <<c.blocks[n].block, k>>) = c.blocks[n].instructions[k]
         /\ \A place \in PlacesOf(c) :
               \E n \in 1 .. Len(c.blocks) : \E k \in 1 .. Len(c.blocks[n].instructions) :
                  place = <<c.blocks[n].block, k>>
<1>1. c.blocks \in Seq(Entries) /\ DOMAIN c.blocks = 1 .. Len(c.blocks)
  BY DEF Contexts
<1>2. ASSUME NEW n \in 1 .. Len(c.blocks)
      PROVE  /\ CodeOf(c, c.blocks[n].block) = c.blocks[n].instructions
             /\ DOMAIN c.blocks[n].instructions = 1 .. Len(c.blocks[n].instructions)
  <2> DEFINE j == CHOOSE j \in DOMAIN c.blocks : c.blocks[j].block = c.blocks[n].block
  <2>1. j \in 1 .. Len(c.blocks) /\ c.blocks[j].block = c.blocks[n].block
    BY <1>1
  <2>2. CodeOf(c, c.blocks[n].block) = c.blocks[j].instructions
    BY DEF CodeOf
  <2> HIDE DEF j
  <2>3. j = n
    BY <2>1 DEF Distinct
  <2>4. c.blocks[n].instructions \in Seq(Instructions)
    <3>1. c.blocks[n] \in Entries
      BY <1>1
    <3> QED BY <3>1 DEF Entries
  <2> QED BY <2>2, <2>3, <2>4
<1>3. ASSUME NEW n \in 1 .. Len(c.blocks), NEW k \in 1 .. Len(c.blocks[n].instructions)
      PROVE  /\ <<c.blocks[n].block, k>> \in PlacesOf(c)
             /\ InstructionAt(c, <<c.blocks[n].block, k>>) = c.blocks[n].instructions[k]
  <2>1. k \in DOMAIN CodeOf(c, c.blocks[n].block)
    BY <1>2
  <2>2. c.blocks[n].block \in {c.blocks[l].block : l \in DOMAIN c.blocks}
    BY <1>1
  <2> QED BY <1>2, <2>1, <2>2 DEF PlacesOf, InstructionAt
<1>4. ASSUME NEW place \in PlacesOf(c)
      PROVE  \E n \in 1 .. Len(c.blocks) : \E k \in 1 .. Len(c.blocks[n].instructions) :
                place = <<c.blocks[n].block, k>>
  <2>1. PICK block \in {c.blocks[l].block : l \in DOMAIN c.blocks} : place \in {block} \X DOMAIN CodeOf(c, block)
    BY DEF PlacesOf
  <2>2. PICK n \in 1 .. Len(c.blocks) : block = c.blocks[n].block
    BY <1>1, <2>1
  <2>3. place[2] \in DOMAIN CodeOf(c, block) /\ place = <<block, place[2]>>
    BY <2>1
  <2>4. place[2] \in 1 .. Len(c.blocks[n].instructions)
    BY <1>2, <2>2, <2>3
  <2> QED BY <2>2, <2>3, <2>4
<1> QED BY <1>3, <1>4

(* LLVM and the assertion of the backend accept the blocks.                *)
Accepted(c) ==
    \A n \in 1 .. Len(c.blocks) :
        /\ LeadTo(c.blocks[n].instructions, EmittedBy(c))
        /\ IsBasicBlock(c.blocks[n].instructions)

(* The n-th of the functions in AfterJumps is right about the j-th block.  *)
IsRightAbout(c, m, n, j) ==
    \A k \in 1 .. Len(c.blocks[j].instructions) :
        Aftermath(c)[n][<<c.blocks[j].block, k>>] = Event(m, c.blocks[j].instructions[k])

(* Where a block begins that is right.                                     *)
LEMMA BlockBegins ==
  ASSUME NEW b, NEW m, NEW c \in Contexts, Complete(b, m, c), Accepted(c),
         NEW j \in 1 .. Len(c.blocks)
  PROVE  /\ 1 \in 1 .. Len(c.blocks[j].instructions)
         /\ Event(m, c.blocks[j].instructions[1]) = m[c.blocks[j].block]
         /\ \A n : IsRightAbout(c, m, n, j) =>
              Aftermath(c)[n][<<c.blocks[j].block, 1>>] = m[c.blocks[j].block]
<1> DEFINE s == c.blocks[j].instructions
           block == c.blocks[j].block
<1>1. s \in Seq(Instructions) /\ s # <<>>
  <2>1. c.blocks \in Seq(Entries)
    BY DEF Contexts
  <2>2. c.blocks[j] \in Entries
    BY <2>1
  <2> QED BY <2>2 DEF Entries, Accepted, IsBasicBlock
<1>2. PICK e : Flows(b, m, block, s, e)
  BY DEF Complete, BlocksMean
<1>3. 1 \in 1 .. Len(s)
  <2>1. Len(s) # 0 /\ Len(s) \in Nat
    BY <1>1, EmptySeq
  <2> QED BY <2>1
<1>4. Event(m, s[1]) = m[block]
  BY <1>1, <1>2 DEF Flows
<1> QED BY <1>3, <1>4 DEF IsRightAbout

(* Where a jump leads to: to a block that was emitted, further on, or to   *)
(* one that does not begin with a jump.                                    *)
LEMMA WhereJumpsLead ==
  ASSUME NEW b, NEW m, NEW c \in Contexts, Complete(b, m, c), Accepted(c),
         NEW j \in 1 .. Len(c.blocks), NEW k \in 1 .. Len(c.blocks[j].instructions),
         c.blocks[j].instructions[k].kind = "jump"
  PROVE  \E l \in 1 .. Len(c.blocks) :
            /\ c.blocks[l].block = c.blocks[j].instructions[k].targets[1]
            /\ l > j \/ c.blocks[l].instructions[1].kind # "jump"
<1> DEFINE i == c.blocks[j].instructions[k]
           target == i.targets[1]
<1>1. Len(i.targets) = 1
  <2>1. PICK e : Flows(b, m, c.blocks[j].block, c.blocks[j].instructions, e)
    BY DEF Complete, BlocksMean
  <2> QED BY <2>1 DEF Flows, Right
<1>2. target \in EmittedBy(c)
  <2>1. 1 \in 1 .. Len(i.targets)
    BY <1>1
  <2> QED BY <2>1 DEF Accepted, LeadTo
<1>3. target \notin Behind(c, j) \/ Anchored(c, target)
  BY DEF Complete, BlocksMean, JumpsAhead
<1> HIDE DEF i, target
<1>4. CASE target \notin Behind(c, j)
  <2>1. PICK l \in 1 .. Len(c.blocks) : c.blocks[l].block = target
    BY <1>2 DEF EmittedBy
  <2>2. l > j
    <3>1. Len(c.blocks) \in Nat
      BY DEF Contexts
    <3>2. ~ (l <= j)
      BY <1>4, <2>1, <3>1 DEF Behind
    <3> QED BY <3>1, <3>2
  <2> QED BY <2>1, <2>2 DEF i, target
<1>5. CASE Anchored(c, target)
  BY <1>5 DEF Anchored, i, target
<1> QED BY <1>3, <1>4, <1>5

(* Jumps are followed to their end: every function of AfterJumps that      *)
(* allows for as many jumps as there are blocks ahead is right.            *)
LEMMA JumpsEnd ==
  ASSUME NEW b, NEW m, NEW c \in Contexts, Complete(b, m, c), Accepted(c)
  PROVE  \A j \in 1 .. Len(c.blocks) : IsRightAbout(c, m, Len(c.blocks), j)
<1>1. PICK N \in Nat : Len(c.blocks) = N
  BY DEF Contexts
<1>2. Distinct(c)
  BY DEF Complete, BlocksMean
<1> DEFINE RightFrom(i) ==
             \A n \in 0 .. N : \A j \in 1 .. N :
                 j > i /\ n >= (N - j) + 1 => IsRightAbout(c, m, n, j)
           U == {i \in 0 .. N : RightFrom(i)}
<1>3. N \in U
  BY <1>1
<1>4. ASSUME NEW i \in 0 .. N - 1, i + 1 \in U
      PROVE  i \in U
  <2>1. ASSUME NEW n \in 0 .. N, NEW j \in 1 .. N, j > i, n >= (N - j) + 1
        PROVE  IsRightAbout(c, m, n, j)
    <3>1. CASE j > i + 1
      BY <1>4, <2>1, <3>1
    <3>2. CASE j = i + 1
      <4>1. ASSUME NEW k \in 1 .. Len(c.blocks[j].instructions)
            PROVE  Aftermath(c)[n][<<c.blocks[j].block, k>>] = Event(m, c.blocks[j].instructions[k])
        <5> DEFINE place == <<c.blocks[j].block, k>>
                   ins == c.blocks[j].instructions[k]
                   target == ins.targets[1]
        <5>1. place \in PlacesOf(c) /\ InstructionAt(c, place) = ins
          BY <1>1, <1>2, PlacesOfBlocks
        <5>2. Aftermath(c)[n][place] = IF ins.kind = "jump" /\ n > 0
                                         THEN Aftermath(c)[n - 1][<<target, 1>>]
                                         ELSE ins.point
          <6> HIDE DEF place, ins
          <6>1. LET x == InstructionAt(c, place)
                IN  Aftermath(c)[n][place] = IF x.kind = "jump" /\ n > 0
                                               THEN Aftermath(c)[n - 1][<<x.targets[1], 1>>]
                                               ELSE x.point
            BY <1>1, <5>1, AftermathIs
          <6> QED BY <5>1, <6>1
        <5>3. CASE ins.kind = "jump"
          <6>1. n > 0 /\ n - 1 \in 0 .. N
            BY <2>1
          <6>2. PICK l \in 1 .. N :
                   /\ c.blocks[l].block = target
                   /\ l > j \/ c.blocks[l].instructions[1].kind # "jump"
            BY <1>1, <5>3, WhereJumpsLead
          <6>3. /\ 1 \in 1 .. Len(c.blocks[l].instructions)
                /\ Event(m, c.blocks[l].instructions[1]) = m[target]
                /\ \A x : IsRightAbout(c, m, x, l) => Aftermath(c)[x][<<target, 1>>] = m[target]
            <7> HIDE DEF target
            <7>1. l \in 1 .. Len(c.blocks)
              BY <1>1
            <7>2. /\ 1 \in 1 .. Len(c.blocks[l].instructions)
                  /\ Event(m, c.blocks[l].instructions[1]) = m[c.blocks[l].block]
                  /\ \A x : IsRightAbout(c, m, x, l) =>
                       Aftermath(c)[x][<<c.blocks[l].block, 1>>] = m[c.blocks[l].block]
              BY <7>1, BlockBegins
            <7>3. c.blocks[l].block = target
              BY <6>2
            <7> QED BY <7>2, <7>3
          <6>4. CASE l > j
            <7>1. n - 1 >= (N - l) + 1 /\ l > i + 1
              BY <2>1, <3>2, <6>4
            <7>2. IsRightAbout(c, m, n - 1, l)
              BY <1>4, <6>1, <7>1
            <7>3. Aftermath(c)[n - 1][<<target, 1>>] = m[target]
              BY <6>3, <7>2
            <7> QED BY <5>2, <5>3, <6>1, <7>3 DEF Event
          <6>5. CASE c.blocks[l].instructions[1].kind # "jump"
            <7> DEFINE start == <<c.blocks[l].block, 1>>
                       first == c.blocks[l].instructions[1]
            <7>1. start \in PlacesOf(c) /\ InstructionAt(c, start) = first
              BY <1>1, <1>2, <6>3, PlacesOfBlocks
            <7>2. Aftermath(c)[n - 1][start] = first.point
              <8> HIDE DEF start, first
              <8>1. LET x == InstructionAt(c, start)
                    IN  Aftermath(c)[n - 1][start] = IF x.kind = "jump" /\ n - 1 > 0
                                                       THEN Aftermath(c)[(n - 1) - 1][<<x.targets[1], 1>>]
                                                       ELSE x.point
                BY <1>1, <6>1, <7>1, AftermathIs
              <8> QED BY <6>5, <7>1, <8>1 DEF first
            <7>3. Event(m, first) = first.point
              BY <6>5 DEF Event
            <7>4. Aftermath(c)[n - 1][<<target, 1>>] = m[target]
              BY <6>2, <6>3, <7>2, <7>3
            <7> QED BY <5>2, <5>3, <6>1, <7>4 DEF Event
          <6> QED BY <6>2, <6>4, <6>5
        <5>4. CASE ins.kind # "jump"
          BY <5>2, <5>4 DEF Event
        <5> QED BY <5>3, <5>4
      <4> QED BY <4>1 DEF IsRightAbout
    <3> QED BY <2>1, <3>1, <3>2
  <2> QED BY <2>1
<1>5. \A i \in 0 .. N : i \in U
  <2> HIDE DEF U
  <2> QED BY <1>3, <1>4, DownwardInduction
<1>6. ASSUME NEW j \in 1 .. N
      PROVE  IsRightAbout(c, m, N, j)
  <2>1. 0 \in U
    BY <1>5
  <2>2. N \in 0 .. N /\ j > 0 /\ N >= (N - j) + 1
    OBVIOUS
  <2> QED BY <2>1, <2>2
<1> QED BY <1>1, <1>6

(***************************************************************************)
(* Running the blocks                                                      *)
(***************************************************************************)

(* The blocks do what the statements say, as far as they are generated,    *)
(* and what runs is one of them.                                           *)
RunInv ==
    /\ pc = "generate" => StaysMeaningful
    /\ pc \in {"backend", "run"} => \E m : Complete(body, m, context)
    /\ pc = "run" => Accepted(context) /\ at \in PlacesOf(context)

(* What happens next while they run, and after the step.                   *)
LEMMA UpcomingIs ==
  ASSUME Inv, RunInv, pc = "run", NEW m, Complete(body, m, context)
  PROVE  /\ Upcoming = Event(m, Running)
         /\ UNCHANGED context /\ pc' = "run" /\ at' \in PlacesOf(context) =>
              Upcoming' = Event(m, InstructionAt(context, at'))
<1>1. context \in Contexts /\ Accepted(context) /\ at \in PlacesOf(context)
  BY DEF Inv, RunInv
<1>2. Distinct(context)
  BY DEF Complete, BlocksMean
<1>3. ASSUME NEW place \in PlacesOf(context)
      PROVE  Aftermath(context)[Len(context.blocks)][place] = Event(m, InstructionAt(context, place))
  <2>1. PICK n \in 1 .. Len(context.blocks) :
          \E k \in 1 .. Len(context.blocks[n].instructions) : place = <<context.blocks[n].block, k>>
    BY <1>1, <1>2, PlacesOfBlocks
  <2>2. PICK k \in 1 .. Len(context.blocks[n].instructions) : place = <<context.blocks[n].block, k>>
    BY <2>1
  <2>3. InstructionAt(context, place) = context.blocks[n].instructions[k]
    BY <1>1, <1>2, <2>2, PlacesOfBlocks
  <2>4. IsRightAbout(context, m, Len(context.blocks), n)
    BY <1>1, JumpsEnd
  <2> QED BY <2>2, <2>3, <2>4 DEF IsRightAbout
<1>4. Upcoming = Aftermath(context)[Len(context.blocks)][at]
  BY AfterJumpsIs DEF Upcoming
<1>5. Running = InstructionAt(context, at)
  BY DEF Running, Code, InstructionAt, CodeOf
<1>6. ASSUME UNCHANGED context, pc' = "run", at' \in PlacesOf(context)
      PROVE  Upcoming' = Event(m, InstructionAt(context, at'))
  <2>1. AfterJumps' = Aftermath(context)
    BY <1>6, AfterJumpsStays
  <2>2. Upcoming' = Aftermath(context)[Len(context.blocks)][at']
    BY <1>6, <2>1 DEF Upcoming
  <2> QED BY <1>3, <1>6, <2>2
<1> QED BY <1>1, <1>3, <1>4, <1>5, <1>6

(* The instruction that runs, in its block.                                *)
LEMMA RunningIs ==
  ASSUME Inv, RunInv, pc = "run", NEW m, Complete(body, m, context)
  PROVE  \E n \in 1 .. Len(context.blocks) : \E k \in 1 .. Len(context.blocks[n].instructions) :
            /\ at = <<context.blocks[n].block, k>>
            /\ Running = context.blocks[n].instructions[k]
            /\ Running \in Instructions
            /\ Running.kind \in Terminators <=> k = Len(context.blocks[n].instructions)
            /\ \E e : Right(body, m, Running,
                            IF k < Len(context.blocks[n].instructions)
                              THEN Event(m, context.blocks[n].instructions[k + 1]) ELSE e)
            /\ \A t \in 1 .. Len(Running.targets) : Running.targets[t] \in EmittedBy(context)
<1>1. context \in Contexts /\ Accepted(context) /\ at \in PlacesOf(context) /\ Distinct(context)
  BY DEF Inv, RunInv, Complete, BlocksMean
<1>2. PICK n \in 1 .. Len(context.blocks) :
        \E k \in 1 .. Len(context.blocks[n].instructions) : at = <<context.blocks[n].block, k>>
  BY <1>1, PlacesOfBlocks
<1> DEFINE s == context.blocks[n].instructions
<1>3. PICK k \in 1 .. Len(s) : at = <<context.blocks[n].block, k>>
  BY <1>2
<1>4. InstructionAt(context, at) = s[k]
  BY <1>1, <1>3, PlacesOfBlocks
<1>5. Running = s[k]
  BY <1>4 DEF Running, Code, InstructionAt, CodeOf
<1>6. s \in Seq(Instructions)
  <2>1. context.blocks \in Seq(Entries)
    BY <1>1 DEF Contexts
  <2>2. context.blocks[n] \in Entries
    BY <2>1
  <2> QED BY <2>2 DEF Entries
<1>7. LeadTo(s, EmittedBy(context)) /\ IsBasicBlock(s)
  BY <1>1 DEF Accepted
<1>8. PICK e : Flows(body, m, context.blocks[n].block, s, e)
  BY DEF Complete, BlocksMean
<1> HIDE DEF s
<1>9. k \in DOMAIN s /\ s[k] \in Instructions
  BY <1>6
<1>10. Right(body, m, Running, IF k < Len(s) THEN Event(m, s[k + 1]) ELSE e)
  BY <1>5, <1>8 DEF Flows
<1>11. Running.kind \in Terminators <=> k = Len(s)
  BY <1>5, <1>7, <1>9 DEF IsBasicBlock
<1>12. \A t \in 1 .. Len(Running.targets) : Running.targets[t] \in EmittedBy(context)
  BY <1>5, <1>7 DEF LeadTo
<1> QED BY <1>3, <1>5, <1>9, <1>10, <1>11, <1>12 DEF s

(* Where a block that was emitted begins.                                  *)
LEMMA EmittedBegins ==
  ASSUME Inv, RunInv, pc = "run", NEW m, Complete(body, m, context), NEW block \in EmittedBy(context)
  PROVE  /\ <<block, 1>> \in PlacesOf(context)
         /\ Event(m, InstructionAt(context, <<block, 1>>)) = m[block]
<1>1. context \in Contexts /\ Accepted(context) /\ Distinct(context)
  BY DEF Inv, RunInv, Complete, BlocksMean
<1>2. PICK n \in 1 .. Len(context.blocks) : block = context.blocks[n].block
  BY DEF EmittedBy
<1>3. /\ 1 \in 1 .. Len(context.blocks[n].instructions)
      /\ Event(m, context.blocks[n].instructions[1]) = m[context.blocks[n].block]
  BY <1>1, BlockBegins, ZenonT(40)
<1>4. /\ <<context.blocks[n].block, 1>> \in PlacesOf(context)
      /\ InstructionAt(context, <<context.blocks[n].block, 1>>) = context.blocks[n].instructions[1]
  BY <1>1, <1>3, PlacesOfBlocks
<1> QED BY <1>2, <1>3, <1>4

(* A step of the code is one of the structured program, or a jump.         *)
LEMMA RunsAsStructured ==
  ASSUME Inv, RunInv, Run
  PROVE  RunInv' /\ (Structured!Next \/ UNCHANGED <<body, Upcoming>>)
<1>1. pc = "run" /\ UNCHANGED <<body, has_return, stack, child_scopes, context>>
  BY DEF Run
<1>2. PICK m : Complete(body, m, context)
  BY <1>1 DEF RunInv
<1>3. context \in Contexts /\ Accepted(context) /\ Distinct(context)
  BY <1>1, <1>2 DEF Inv, RunInv, Complete, BlocksMean
<1>4. PICK n \in 1 .. Len(context.blocks) : \E k \in 1 .. Len(context.blocks[n].instructions) :
            /\ at = <<context.blocks[n].block, k>>
            /\ Running = context.blocks[n].instructions[k]
            /\ Running \in Instructions
            /\ Running.kind \in Terminators <=> k = Len(context.blocks[n].instructions)
            /\ \E e : Right(body, m, Running,
                            IF k < Len(context.blocks[n].instructions)
                              THEN Event(m, context.blocks[n].instructions[k + 1]) ELSE e)
            /\ \A t \in 1 .. Len(Running.targets) : Running.targets[t] \in EmittedBy(context)
  BY <1>1, <1>2, RunningIs
<1> DEFINE s == context.blocks[n].instructions
<1>5. PICK k \in 1 .. Len(s) :
            /\ at = <<context.blocks[n].block, k>>
            /\ Running = s[k]
            /\ Running \in Instructions
            /\ Running.kind \in Terminators <=> k = Len(s)
            /\ \E e : Right(body, m, Running, IF k < Len(s) THEN Event(m, s[k + 1]) ELSE e)
            /\ \A t \in 1 .. Len(Running.targets) : Running.targets[t] \in EmittedBy(context)
  BY <1>4
<1>6. PICK e : Right(body, m, Running, IF k < Len(s) THEN Event(m, s[k + 1]) ELSE e)
  BY <1>5
<1>7. Upcoming = Event(m, Running)
  BY <1>1, <1>2, UpcomingIs
<1>8. ASSUME pc' = "run", at' \in PlacesOf(context)
      PROVE  RunInv' /\ Upcoming' = Event(m, InstructionAt(context, at'))
  <2>1. RunInv'
    BY <1>1, <1>2, <1>3, <1>8 DEF RunInv
  <2>2. Upcoming' = Event(m, InstructionAt(context, at'))
    BY <1>1, <1>2, <1>8, UpcomingIs
  <2> QED BY <2>1, <2>2
<1>9. Running.kind \in {"other", "return", "branch", "jump"} /\ Running.targets \in Seq(Nat)
  BY <1>5 DEF Instructions
<1> HIDE DEF s
<1>10. CASE Running.kind = "other"
  <2>1. pc' = "run" /\ at' = <<at[1], at[2] + 1>>
    BY <1>1, <1>10 DEF Run
  <2>2. Len(s) \in Nat
    <3>1. context.blocks[n] \in Entries
      <4>1. context.blocks \in Seq(Entries)
        BY <1>3 DEF Contexts
      <4> QED BY <4>1
    <3> QED BY <3>1 DEF Entries, s
  <2>3. k < Len(s) /\ k + 1 \in 1 .. Len(s)
    BY <1>5, <1>10, <2>2 DEF Terminators
  <2>4. at' = <<context.blocks[n].block, k + 1>>
    BY <1>5, <2>1
  <2>5. at' \in PlacesOf(context) /\ InstructionAt(context, at') = s[k + 1]
    BY <1>3, <2>3, <2>4, PlacesOfBlocks DEF s
  <2>6. RunInv' /\ Upcoming' = Event(m, s[k + 1])
    BY <1>8, <2>1, <2>5
  <2>7. Upcoming = Running.point
    BY <1>7, <1>10 DEF Event
  <2>8. Steps(body, Upcoming, Upcoming')
    BY <1>6, <1>10, <2>3, <2>6, <2>7 DEF Right
  <2> QED BY <1>1, <2>6, <2>8, StepsAreStructured
<1>11. CASE Running.kind = "return"
  <2>1. pc' = "returned"
    BY <1>1, <1>11 DEF Run
  <2>2. Upcoming' = Structured!Returned
    BY <2>1, SameTree DEF Upcoming, Structured!Returned
  <2>3. Upcoming = Running.point
    BY <1>7, <1>11 DEF Event
  <2>4. Steps(body, Upcoming, Upcoming')
    BY <1>6, <1>11, <2>2, <2>3 DEF Right
  <2>5. RunInv'
    BY <2>1 DEF RunInv
  <2> QED BY <1>1, <2>4, <2>5, StepsAreStructured
<1>12. CASE Running.kind \in {"branch", "jump"}
  <2>1. pc' = "run" /\ \E t \in DOMAIN Running.targets : at' = <<Running.targets[t], 1>>
    BY <1>1, <1>12 DEF Run
  <2>2. PICK t \in 1 .. Len(Running.targets) : at' = <<Running.targets[t], 1>>
    BY <1>9, <2>1
  <2>3. PICK block \in EmittedBy(context) : block = Running.targets[t]
    BY <1>5
  <2>4. at' \in PlacesOf(context) /\ Event(m, InstructionAt(context, at')) = m[block]
    BY <1>1, <1>2, <2>2, <2>3, EmittedBegins
  <2>5. RunInv' /\ Upcoming' = m[Running.targets[t]]
    BY <1>8, <2>1, <2>3, <2>4
  <2>6. CASE Running.kind = "branch"
    <3>1. Upcoming = Running.point
      BY <1>7, <2>6 DEF Event
    <3>2. Steps(body, Upcoming, Upcoming')
      BY <1>6, <2>5, <2>6, <3>1 DEF Right
    <3> QED BY <1>1, <2>5, <3>2, StepsAreStructured
  <2>7. CASE Running.kind = "jump"
    <3>1. Len(Running.targets) = 1
      BY <1>6, <2>7 DEF Right
    <3>2. t = 1
      BY <3>1
    <3>3. Upcoming = m[Running.targets[1]]
      BY <1>7, <2>7 DEF Event
    <3> QED BY <1>1, <2>5, <3>2, <3>3
  <2> QED BY <1>12, <2>6, <2>7
<1> QED BY <1>9, <1>10, <1>11, <1>12

(* The backend accepts them and they begin.                                *)
LEMMA BeginsAsStructured ==
  ASSUME Inv, RunInv, Backend
  PROVE  RunInv' /\ (Structured!Next \/ UNCHANGED <<body, Upcoming>>)
<1>1. /\ pc = "backend"
      /\ pc' = IF ~ Targets \subseteq Emitted THEN "assert_failed"
               ELSE IF \A block \in Emitted : IsBasicBlock(Code(block)) THEN "run"
               ELSE "verify_failed"
      /\ at' = <<context.blocks[1].block, 1>>
      /\ UNCHANGED <<body, has_return, stack, child_scopes, context>>
  BY DEF Backend
<1>2. Upcoming = Structured!NotStarted
  BY <1>1, SameTree DEF Upcoming, Structured!NotStarted
<1>3. CASE pc' # "run"
  <2>1. pc' \in {"assert_failed", "verify_failed"}
    BY <1>1, <1>3
  <2>2. Upcoming' = Structured!NotStarted
    BY <2>1, SameTree DEF Upcoming, Structured!NotStarted
  <2>3. RunInv'
    BY <2>1 DEF RunInv
  <2> QED BY <1>1, <1>2, <2>2, <2>3
<1>4. CASE pc' = "run"
  <2>1. PICK m : Complete(body, m, context)
    BY <1>1 DEF RunInv
  <2>2. context \in Contexts /\ HandedOver /\ Distinct(context)
    BY <1>1, <2>1 DEF Inv, Complete, BlocksMean
  <2>3. context.blocks \in Seq(Entries) /\ DOMAIN context.blocks = 1 .. Len(context.blocks)
    BY <2>2 DEF Contexts
  <2>4. Accepted(context)
    <3>1. ASSUME NEW n \in 1 .. Len(context.blocks)
          PROVE  IsBasicBlock(context.blocks[n].instructions)
      <4>1. context.blocks[n].block \in Emitted
        BY <2>3 DEF Emitted
      <4>2. IsBasicBlock(Code(context.blocks[n].block))
        BY <1>1, <1>4, <4>1
      <4> DEFINE j == CHOOSE j \in DOMAIN context.blocks : context.blocks[j].block = context.blocks[n].block
      <4>3. j \in 1 .. Len(context.blocks) /\ context.blocks[j].block = context.blocks[n].block
        BY <2>3
      <4>4. Code(context.blocks[n].block) = context.blocks[j].instructions
        BY DEF Code
      <4> HIDE DEF j
      <4>5. j = n
        BY <2>2, <4>3 DEF Distinct
      <4> QED BY <4>2, <4>4, <4>5
    <3> QED BY <2>2, <3>1 DEF Accepted, HandedOver
  <2>5. 1 \in 1 .. Len(context.blocks)
    BY <2>1, <2>3 DEF Complete
  <2>6. 1 \in 1 .. Len(context.blocks[1].instructions)
    BY <2>1, <2>2, <2>4, <2>5, BlockBegins
  <2>7. at' \in PlacesOf(context)
    BY <1>1, <2>2, <2>5, <2>6, PlacesOfBlocks
  <2>8. RunInv'
    BY <1>1, <1>4, <2>1, <2>4, <2>7 DEF RunInv
  <2>9. Upcoming' = m[1]
    <3>1. AfterJumps' = Aftermath(context)
      BY <1>1, AfterJumpsStays
    <3>2. Upcoming' = Aftermath(context)[Len(context.blocks)][at']
      BY <1>1, <1>4, <3>1 DEF Upcoming
    <3>3. IsRightAbout(context, m, Len(context.blocks), 1)
      BY <2>1, <2>2, <2>4, <2>5, JumpsEnd
    <3>4. Aftermath(context)[Len(context.blocks)][<<context.blocks[1].block, 1>>] = m[context.blocks[1].block]
      BY <2>1, <2>2, <2>4, <2>5, <3>3, BlockBegins
    <3> QED BY <1>1, <2>1, <3>2, <3>4 DEF Complete
  <2>10. Upcoming' = Structured!Upcoming(body)[<< <<>>, 1 >>]
    BY <2>1, <2>9 DEF Complete, Comes
  <2>11. Structured!Start
    BY <1>2, <2>10 DEF Structured!Start
  <2> QED BY <1>1, <2>8, <2>11 DEF Structured!Next
<1> QED BY <1>3, <1>4

(* Before they run, nothing has happened.                                  *)
LEMMA NothingHappensBefore ==
  ASSUME pc \notin {"run", "returned"}, pc' \notin {"run", "returned"}
  PROVE  UNCHANGED Upcoming
BY DEF Upcoming

(* The walks and the generator run nothing.                                *)
LEMMA WalksRunNothing ==
  ASSUME Inv, Next, ~ Backend, ~ Run, ~ Stopped
  PROVE  /\ pc \notin {"run", "returned"}
         /\ pc' \notin {"run", "returned"}
         /\ UNCHANGED body
         /\ pc' = "backend" => EndFunction /\ pc = "generate"
<1>1. CASE EnterScope \/ LeaveStatement \/ ScopesProcessed \/ LeaveList \/ MissingReturn
  BY <1>1 DEF EnterScope, LeaveStatement, ScopesProcessed, LeaveList, MissingReturn, EndsGeneration, Reject
<1>2. CASE GenerateStatement
  <2>1. pc = "generate" /\ UNCHANGED body /\ pc' \in {"generate", "error", "aborted", "assert_failed"}
    <3>1. CASE Declaration \/ UnreachableCode \/ TypeError \/ StartOver \/ NoCase \/ BreakOutsideLoop
      BY <3>1 DEF Declaration, UnreachableCode, TypeError, StartOver, NoCase, BreakOutsideLoop,
         Begins, Evaluates, Generating, Reject
    <3>2. CASE Effect \/ Nothing \/ Return \/ Break
      BY <3>2 DEF Effect, Nothing, Return, Break, Begins, Generating, Commit
    <3>3. CASE If \/ ElseIf \/ Else \/ EndIf
      BY <3>3 DEF If, ElseIf, Else, EndIf, Condition, Begins, Resumes, Generating, Commit
    <3>4. CASE While \/ EndWhile \/ For \/ EndFor
      BY <3>4 DEF While, EndWhile, For, EndFor, Loop, Begins, Resumes, Generating, Commit
    <3> QED BY <1>2, <3>1, <3>2, <3>3, <3>4 DEF GenerateStatement
  <2> QED BY <2>1
<1>3. CASE EndFunction
  <2>1. pc = "generate" /\ UNCHANGED body /\ pc' \in {"assert_failed", "backend"}
    BY <1>3 DEF EndFunction, EndsGeneration
  <2> QED BY <1>3, <2>1
<1> QED BY <1>1, <1>2, <1>3 DEF Next

(* Neither does a step that changes nothing.                               *)
LEMMA UnchangedUpcoming ==
  ASSUME UNCHANGED vars
  PROVE  UNCHANGED <<body, Upcoming>>
<1>1. UNCHANGED <<body, pc, context, at>>
  BY DEF vars
<1>2. AfterJumps' = AfterJumps
  BY <1>1, AfterJumpsIs, AfterJumpsStays
<1>3. Upcoming' = Upcoming
  BY <1>1, <1>2 DEF Upcoming
<1> QED BY <1>1, <1>3

(* Every step is one of the structured program, or nothing happens.        *)
LEMMA NextIsStructured ==
  ASSUME Inv, RunInv, [Next]_vars
  PROVE  RunInv' /\ (Structured!Next \/ UNCHANGED <<body, Upcoming>>)
<1>1. CASE Run
  BY <1>1, RunsAsStructured
<1>2. CASE Backend
  BY <1>2, BeginsAsStructured
<1>3. CASE Next /\ ~ Backend /\ ~ Run /\ ~ Stopped
  <2>1. /\ pc' \notin {"run", "returned"}
        /\ UNCHANGED <<body, Upcoming>>
        /\ pc' = "backend" => EndFunction /\ pc = "generate"
    BY <1>3, WalksRunNothing, NothingHappensBefore
  <2>2. pc' = "generate" => StaysMeaningful'
    BY <1>3, GeneratorMeans DEF RunInv
  <2>3. ASSUME pc' = "backend"
        PROVE  \E m : Complete(body', m, context')
    <3>1. EndFunction /\ pc = "generate" /\ body' = body
      BY <2>1, <2>3
    <3>2. PICK m : Means(body, m, stack, context)
      BY <3>1 DEF RunInv, StaysMeaningful
    <3>3. Complete(body, m, context')
      BY <3>1, <3>2, EndFunctionMeans
    <3> QED BY <3>1, <3>3
  <2>4. RunInv'
    BY <2>1, <2>2, <2>3 DEF RunInv
  <2> QED BY <2>1, <2>4
<1>4. CASE Stopped \/ UNCHANGED vars
  <2>1. UNCHANGED vars
    BY <1>4 DEF Stopped
  <2>2. UNCHANGED <<body, stack, context, pc, at>>
    BY <2>1 DEF vars
  <2>3. RunInv'
    BY <2>2 DEF RunInv, StaysMeaningful
  <2> QED BY <2>1, <2>3, UnchangedUpcoming
<1> QED BY <1>1, <1>2, <1>3, <1>4

(* RunInv is an invariant of the walks, the generator and the code.        *)
THEOREM RunInvHolds == Spec => []RunInv
<1>1. Init => RunInv
  BY DEF Init, RunInv
<1>2. Inv /\ RunInv /\ [Next]_vars => RunInv'
  BY NextIsStructured
<1> QED BY <1>1, <1>2, InvHolds, PTL DEF Spec

(* The blocks of a function do what its statements say: the effects,       *)
(* conditions and returns happen in the order in which they happen in the  *)
(* structured program, whatever the body and however often the job starts  *)
(* over.                                                                   *)
THEOREM BlocksImplementStatements == Spec => ImplementsStructured
<1>1. Init => Structured!Init
  BY SameTree DEF Init, Upcoming, Structured!Init, Structured!NotStarted
<1>2. Inv /\ RunInv /\ [Next]_vars => [Structured!Next]_<<body, Upcoming>>
  BY NextIsStructured
<1> QED
  BY <1>1, <1>2, InvHolds, RunInvHolds, PTL DEF Spec, ImplementsStructured, Structured!Spec, Structured!svars

=============================================================================
